---------------------------- MODULE Spec2Model ----------------------------
(***************************************************************************)
(* Chain engine of boxd (package chain, BlockChain): block admission,      *)
(* orphan pool, fork choice, reorganization, tail pointer, storage keys    *)
(* and chain:update events.                                                *)
(*                                                                         *)
(* Blocks are drawn from a fixed universe of block values.  A block's hash *)
(* is the block value itself, so two different blocks never share a hash.  *)
(* The UTXO overlay, the transaction validator, the bloom holder and the   *)
(* block subsidy are not part of the sources at hand; they follow          *)
(* sections 4.2, 4.3 and 4.4 of the specification.                         *)
(***************************************************************************)
EXTENDS Integers, Sequences, FiniteSets, TLC

(***************************************************************************)
(* Bounds of the block universe.                                           *)
(***************************************************************************)
\* chain B is G <- B1 <- ... <- B(MaxB)
MaxB == 3
\* chain L is G <- L1 <- ... <- L(MaxL); it is submitted on its own (SpecLinear)
MaxL == 7
\* unsigned integers are modelled UintBits wide (uint64 in the code)
UintBits == 8
\* MaxBlocksPerSync of the model; the value of the code is 1024
MaxBlocksPerSync == 3
\* the candidate lists of LocateForkPointAndFetchHeaders have up to MaxCand hashes
MaxCand == 2
\* an unlocking script has up to MaxPushes pushes
MaxPushes == 3
\* operand lengths up to MaxRun away from a change of the push opcode
MaxRun == 2
\* the node of SpecNode is offered B1 .. B(MaxE) of chain B (MaxE <= MaxB)
MaxE == 2
ScoreBits == 16
MaxScoreSteps == 4
\* the deepest stack an operation is executed on
MaxDepth == 2

UintMod == 2 ^ UintBits

(***************************************************************************)
(* Program constants.                                                      *)
(***************************************************************************)
CoinbaseLib == 100
Threshold == 32
MaxTimeOffsetSeconds == 7200
\* subsidy of the first period (CalcBlockSubsidy)
BaseSubsidy == 50

(***************************************************************************)
(* The block universe.  A block is <<branch, declared height>>.            *)
(***************************************************************************)
G == <<"G", 0>>
NilBlock == <<"nil", 0>>

\* chain A is G <- A1 <- A2; chains A and B fork at genesis
ChainA == {<<"A", 1>>, <<"A", 2>>}
ChainB == {<<"B", h>> : h \in 1..MaxB}
ChainL == {<<"L", h>> : h \in 1..MaxL}
\* C: child of A1, a valid block that forks off chain A at A1
\* V: child of C whose coinbase pays more than subsidy + fees
\* D: child of B1 that spends the coinbase output of A1 (the other fork)
\* M: child of B1 that spends the (immature) coinbase output of B1
\* W: child of A1 that declares height 3 (wrong height)
\* S: child of A1 whose signature does not verify
Others == {<<"C", 2>>, <<"V", 3>>, <<"D", 2>>, <<"M", 2>>, <<"W", 3>>, <<"S", 2>>}
Blocks == ChainA \cup ChainB \cup Others
\* O: child of A1 whose two coinbase outputs add up to more than the
\* largest unsigned integer
Overflowing == {<<"O", 2>>}
\* the blocks offered to the node of SpecNode
NodeBlocks == {<<"A", 1>>} \cup {<<"B", h>> : h \in 1..MaxE} \cup Overflowing
AllBlocks == {G} \cup Blocks \cup ChainL \cup Overflowing

\* Header.PrevBlockHash
PrevBlockHash(b) ==
    CASE b[1] \in {"A", "B", "L"} -> IF b[2] = 1 THEN G ELSE <<b[1], b[2] - 1>>
      [] b[1] = "C" -> <<"A", 1>>
      [] b[1] = "V" -> <<"C", 2>>
      [] b[1] = "D" -> <<"B", 1>>
      [] b[1] = "M" -> <<"B", 1>>
      [] b[1] = "W" -> <<"A", 1>>
      [] b[1] = "S" -> <<"A", 1>>
      [] b[1] = "O" -> <<"A", 1>>
      [] OTHER -> NilBlock

\* Header.Height, as declared by the block
Height(b) == b[2]

\* Header.TimeStamp: one minting slot per height
TimeStamp(b) == b[2]

MaxHeight == IF MaxL > MaxB THEN MaxL + 1 ELSE MaxB + 1
Heights == 0..MaxHeight

(***************************************************************************)
(* Transactions.  A transaction id is <<kind, block>>; kind "cb" is the    *)
(* coinbase.  An outpoint is <<transaction, index>>.                       *)
(***************************************************************************)
Coinbase(b) == <<"cb", b>>
SpendTx(b) == <<"tx", b>>
OutPointOf(tx, i) == <<tx, i>>

\* Block.Txs
Txs(b) ==
    IF b[1] \in {"D", "M"} THEN <<Coinbase(b), SpendTx(b)>> ELSE <<Coinbase(b)>>

IsCoinBase(tx) == tx[1] = "cb"

\* Transaction.Vin as the referenced outpoints
Vin(tx) ==
    CASE tx[1] = "cb" -> <<>>
      [] tx[2][1] = "D" -> <<OutPointOf(Coinbase(<<"A", 1>>), 1)>>
      [] tx[2][1] = "M" -> <<OutPointOf(Coinbase(<<"B", 1>>), 1)>>
      [] OTHER -> <<>>

\* Transaction.Vout as the output values
Vout(tx) ==
    CASE tx[1] = "cb" /\ tx[2][1] = "V" -> <<BaseSubsidy + 1>>
      [] tx[1] = "cb" /\ tx[2][1] = "O" -> <<UintMod - 1, 2>>
      [] tx[1] = "cb" /\ tx[2][1] \in {"D", "M"} -> <<BaseSubsidy, 10>>
      [] tx[1] = "cb" -> <<BaseSubsidy>>
      [] OTHER -> <<BaseSubsidy - 10>>

OutValue(op) == Vout(op[1])[op[2]]
\* UtxoWrap.BlockHeight and UtxoWrap.IsCoinBase of the entry of an outpoint
WrapHeight(op) == Height(op[1][2])
WrapIsCoinBase(op) == IsCoinBase(op[1])

SeqToSet(s) == {s[i] : i \in 1..Len(s)}
OutPointsOf(tx) == {OutPointOf(tx, i) : i \in 1..Len(Vout(tx))}
BlockTxSet(b) == SeqToSet(Txs(b))
AllTxs == UNION {BlockTxSet(b) : b \in AllBlocks}
AllOutPoints == UNION {OutPointsOf(tx) : tx \in AllTxs}

\* consensus.VerifySign, validateBlock and consensus.VerifyMinerEpoch are
\* decided by the block alone
VerifySign(b) == b[1] # "S"
validateBlock(b) == Len(Txs(b)) > 0 /\ IsCoinBase(Txs(b)[1])
VerifyMinerEpoch(b) == TRUE

RECURSIVE SumSeq(_)
SumSeq(s) == IF s = <<>> THEN 0 ELSE s[1] + SumSeq(Tail(s))


(***************************************************************************)
(* UTXO overlay (specification 4.2).  The overlay holds the outpoints it   *)
(* has loaded or touched, split into unspent and spent entries, and the    *)
(* set of modified entries.                                                *)
(***************************************************************************)
NewUtxoSet == [unspent |-> {}, spent |-> {}, modified |-> {}]

BlockInputs(b) == UNION {SeqToSet(Vin(tx)) : tx \in {t \in BlockTxSet(b) : ~IsCoinBase(t)}}

\* load_block_utxos: fetch the referenced outpoints the store holds
LoadBlockUtxos(u, b, dbUtxo) ==
    [u EXCEPT !.unspent = @ \cup {op \in BlockInputs(b) :
                                    op \in dbUtxo /\ op \notin (u.unspent \cup u.spent)}]

\* add_utxo: fails if the outpoint is already present and unspent
AddUtxo(u, op) ==
    IF op \in u.unspent
    THEN [err |-> "ErrAddExistingUtxo", u |-> u]
    ELSE [err |-> "ok",
          u |-> [unspent |-> u.unspent \cup {op}, spent |-> u.spent \ {op},
                 modified |-> u.modified \cup {op}]]

\* spend_utxo: fails if the outpoint is absent or already spent
SpendUtxo(u, op) ==
    IF op \notin u.unspent
    THEN [err |-> "ErrMissingUtxo", u |-> u]
    ELSE [err |-> "ok",
          u |-> [unspent |-> u.unspent \ {op}, spent |-> u.spent \cup {op},
                 modified |-> u.modified \cup {op}]]

RECURSIVE SpendAll(_, _)
SpendAll(u, ops) ==
    LET spent(r) == IF r.err # "ok" THEN r ELSE SpendAll(r.u, Tail(ops))
    IN  IF ops = <<>> THEN [err |-> "ok", u |-> u]
        ELSE spent(SpendUtxo(u, ops[1]))

RECURSIVE AddAll(_, _, _)
AddAll(u, tx, i) ==
    LET added(r) == IF r.err # "ok" THEN r ELSE AddAll(r.u, tx, i + 1)
    IN  IF i > Len(Vout(tx)) THEN [err |-> "ok", u |-> u]
        ELSE added(AddUtxo(u, OutPointOf(tx, i)))

\* one transaction of apply_block: spend the inputs (coinbase exempted),
\* then add the outputs
ApplyTx(u, tx) ==
    LET spent(r) == IF r.err # "ok" THEN r ELSE AddAll(r.u, tx, 1)
    IN  spent(IF IsCoinBase(tx) THEN [err |-> "ok", u |-> u] ELSE SpendAll(u, Vin(tx)))

RECURSIVE ApplyTxs(_, _)
ApplyTxs(u, txs) ==
    LET applied(r) == IF r.err # "ok" THEN r ELSE ApplyTxs(r.u, Tail(txs))
    IN  IF txs = <<>> THEN [err |-> "ok", u |-> u]
        ELSE applied(ApplyTx(u, txs[1]))

\* apply_block
UtxoApplyBlock(u, b) == ApplyTxs(u, Txs(b))

\* one transaction of revert_block: remove the outputs it created, then
\* mark its inputs unspent again
RevertTx(u, tx) ==
    LET outs == OutPointsOf(tx)
        ins == IF IsCoinBase(tx) THEN {} ELSE SeqToSet(Vin(tx))
    IN  [unspent |-> (u.unspent \ outs) \cup ins,
         spent |-> (u.spent \cup outs) \ ins,
         modified |-> u.modified \cup outs \cup ins]

RECURSIVE RevertTxs(_, _, _)
RevertTxs(u, txs, i) ==
    IF i = 0 THEN u ELSE RevertTxs(RevertTx(u, txs[i]), txs, i - 1)

\* revert_block: the transactions in reverse order
UtxoRevertBlock(u, b) == RevertTxs(u, Txs(b), Len(Txs(b)))

\* write_to_db: modified unspent entries are written, modified spent
\* entries are deleted
WriteUtxoSetToDB(u, dbUtxo) ==
    (dbUtxo \cup (u.modified \cap u.unspent)) \ (u.modified \cap u.spent)

(***************************************************************************)
(* Transaction validator (specification 4.3) and block subsidy.            *)
(***************************************************************************)
CalcBlockSubsidy(height) == BaseSubsidy

\* script check of the inputs of a block against the loaded overlay: the
\* referenced output must be there; the scripts of the universe succeed
validateBlockScripts(u, b) ==
    IF BlockInputs(b) \subseteq u.unspent THEN "ok" ELSE "ErrMissingTxOut"

\* ValidateTxInputs: every input resolves to an unspent entry, coinbase
\* outputs are mature, input sum >= output sum; returns the fee
ValidateTxInputs(u, tx, height) ==
    LET ins == Vin(tx)
        inSum == SumSeq([i \in 1..Len(ins) |-> OutValue(ins[i])])
        outSum == SumSeq(Vout(tx))
    IN  IF IsCoinBase(tx) THEN [err |-> "ok", fee |-> 0]
        ELSE IF \E i \in 1..Len(ins) : ins[i] \notin u.unspent
        THEN [err |-> "ErrMissingTxOut", fee |-> 0]
        ELSE IF \E i \in 1..Len(ins) :
                   WrapIsCoinBase(ins[i]) /\ height - WrapHeight(ins[i]) < CoinbaseLib
        THEN [err |-> "ErrImmatureSpend", fee |-> 0]
        ELSE IF inSum < outSum
        THEN [err |-> "ErrSpendTooHigh", fee |-> 0]
        ELSE [err |-> "ok", fee |-> inSum - outSum]

(***************************************************************************)
(* Bloom filter holder (specification 4.4): one entry per height, in       *)
(* height order; loadFilters adds the entry of height 1 to the empty       *)
(* holder, so an entry of height h is accepted when h - 1 entries exist.   *)
(***************************************************************************)
NewFilterHolder == <<>>

AddFilter(holder, height, hash) ==
    IF height # Len(holder) + 1
    THEN [err |-> "ErrFilterHeight", holder |-> holder]
    ELSE [err |-> "ok", holder |-> Append(holder, [height |-> height, hash |-> hash])]

\* reset_at: drop the entries of this height and above
ResetFilters(holder, height) ==
    IF height - 1 < Len(holder) THEN SubSeq(holder, 1, height - 1) ELSE holder

(***************************************************************************)
(* Chain state.  The operations below are functions of a record s holding  *)
(* the fields of BlockChain, the storage keys the chain writes and what    *)
(* the running ProcessBlock call has sent to its collaborators.            *)
(***************************************************************************)
NilIndex == <<0, 0>>
Peers == {"", "p1"}

UpdateMsg(b, connected) == [Connected |-> connected, Block |-> b]

\* LoadBlockByHash: the block stored under BlockKey(hash), NilBlock when
\* there is none (ErrBlockIsNil)
LoadBlockByHash(s, hash) ==
    IF hash \in DOMAIN s.dbBlock THEN s.dbBlock[hash] ELSE NilBlock

\* LoadBlockByHeight: genesis, else the heightToBlock cache, else the
\* block whose hash is stored under BlockHashKey(height)
LoadBlockByHeight(s, height) ==
    IF height = 0 THEN G
    ELSE IF s.heightToBlock[height] # NilBlock THEN s.heightToBlock[height]
    ELSE IF s.dbHeight[height] = NilBlock THEN NilBlock
    ELSE LoadBlockByHash(s, s.dbHeight[height])

blockExists(s, hash) ==
    hash \in s.cache \/ LoadBlockByHash(s, hash) # NilBlock

isInOrphanPool(s, hash) == hash \in s.hashToOrphanBlock

\* verifyExists that forgets the orphan pool
verifyExists_cacheAndStoreOnly(s, hash) == blockExists(s, hash)

verifyExists(s, hash) == blockExists(s, hash) \/ isInOrphanPool(s, hash)

getParentBlock(s, b) ==
    IF b = G THEN G
    ELSE IF PrevBlockHash(b) \in s.cache THEN PrevBlockHash(b)
    ELSE LoadBlockByHash(s, PrevBlockHash(b))

notifyBlockConnectionUpdate(s, b, connected) ==
    [s EXCEPT !.published = Append(@, UpdateMsg(b, connected))]

StoreBlockToDb(s, b) ==
    [s EXCEPT !.dbHeight[Height(b)] = b, !.dbBlock[b] = b]

WriteTxIndex(s, b) ==
    [s EXCEPT !.dbTxIndex = [tx \in AllTxs |->
        IF \E i \in 1..Len(Txs(b)) : Txs(b)[i] = tx
        THEN <<Height(b), CHOOSE i \in 1..Len(Txs(b)) : Txs(b)[i] = tx>>
        ELSE @[tx]]]

DelTxIndex(s, b) ==
    [s EXCEPT !.dbTxIndex = [tx \in AllTxs |->
        IF tx \in BlockTxSet(b) THEN NilIndex ELSE @[tx]]]

\* LoadTxByHash: the index entry <<height, idx>> of the hash, the block
\* LoadBlockByHeight returns for that height, and its transaction idx when
\* it has the hash asked for.  An absent index entry does not unmarshal;
\* an idx beyond the transactions of the block is an index out of range.
LoadTxByHash(s, hash) ==
    LET height == s.dbTxIndex[hash][1]
        idx == s.dbTxIndex[hash][2]
        loaded(block) ==
            IF block = NilBlock THEN [err |-> "ErrBlockIsNil", tx |-> <<>>]
            ELSE IF idx > Len(Txs(block)) THEN [err |-> "panic", tx |-> <<>>]
            ELSE IF Txs(block)[idx] = hash THEN [err |-> "ok", tx |-> Txs(block)[idx]]
            ELSE [err |-> "Failed to load tx with hash", tx |-> <<>>]
    IN  IF s.dbTxIndex[hash] = NilIndex THEN [err |-> "ErrTxIndex", tx |-> <<>>]
        ELSE loaded(LoadBlockByHeight(s, height))

\* SetTailBlock that leaves LongestChainHeight as it is
SetTailBlock_heightNotSet(s, b) ==
    [s EXCEPT !.dbTail = b,
              !.repeatedMintCache[TimeStamp(b)] = b,
              !.heightToBlock[Height(b)] = b,
              !.tail = b]

SetTailBlock(s, b) ==
    [s EXCEPT !.dbTail = b,
              !.repeatedMintCache[TimeStamp(b)] = b,
              !.heightToBlock[Height(b)] = b,
              !.LongestChainHeight = Height(b),
              !.tail = b]

\* SetTailBlock up to the assignment of LongestChainHeight: chain.tail
\* is not assigned yet
SetTailBlock_untilHeight(s, b) ==
    [s EXCEPT !.dbTail = b,
              !.repeatedMintCache[TimeStamp(b)] = b,
              !.heightToBlock[Height(b)] = b,
              !.LongestChainHeight = Height(b)]

\* TailBlock and GetBlockHeight read the fields, they take no lock
TailBlock(s) == s.tail

GetBlockHeight(s) == s.LongestChainHeight

\* SetEternal that also takes a block of the height of the eternal block
SetEternal_notStrict(s, block, storeErr) ==
    IF Height(s.eternal) <= Height(block)
    THEN IF storeErr THEN [err |-> "ErrStorage", s |-> s]
         ELSE [err |-> "ok", s |-> [s EXCEPT !.dbEternal = block, !.eternal = block]]
    ELSE [err |-> "ErrFailedToSetEternal", s |-> s]

\* SetEternal.  storeErr tells whether StoreEternalBlock (the write of the
\* eternal key) fails.
SetEternal(s, block, storeErr) ==
    IF Height(s.eternal) < Height(block)
    THEN IF storeErr THEN [err |-> "ErrStorage", s |-> s]
         ELSE [err |-> "ok", s |-> [s EXCEPT !.dbEternal = block, !.eternal = block]]
    ELSE [err |-> "ErrFailedToSetEternal", s |-> s]

revertBlock(s, b) ==
    LET u0 == LoadBlockUtxos(NewUtxoSet, b, s.dbUtxo)
        u1 == UtxoRevertBlock(u0, b)
        s1 == [s EXCEPT !.dbUtxo = WriteUtxoSetToDB(u1, @),
                        !.dbBlock[b] = NilBlock,
                        !.filterHolder = ResetFilters(@, Height(b))]
    IN  [err |-> "ok", s |-> notifyBlockConnectionUpdate(DelTxIndex(s1, b), b, FALSE)]

\* utxoSet is <<u>> for the overlay u of the caller, <<>> for nil
applyBlock(s, b, utxoSet) ==
    LET filtered(s1, r2) ==
            IF r2.err # "ok" THEN [err |-> r2.err, s |-> s1]
            ELSE [err |-> "ok",
                  s |-> notifyBlockConnectionUpdate(
                            WriteTxIndex([s1 EXCEPT !.filterHolder = r2.holder], b),
                            b, TRUE)]
        stored(s1) == filtered(s1, AddFilter(s1.filterHolder, Height(b), b))
        applied(r1) ==
            IF r1.err # "ok" THEN [err |-> r1.err, s |-> s]
            ELSE stored(StoreBlockToDb(
                            [s EXCEPT !.dbUtxo = WriteUtxoSetToDB(r1.u, @)], b))
    IN  applied(UtxoApplyBlock(
                    IF utxoSet = <<>> THEN LoadBlockUtxos(NewUtxoSet, b, s.dbUtxo)
                    ELSE utxoSet[1], b))

RECURSIVE SumFees(_, _, _, _)
\* the fee loop of tryConnectBlockToMainChain: the running total wraps
\* around at the integer width and the wrap is reported as ErrBadFees
SumFees(u, b, i, totalFees) ==
    LET added(next) ==
            IF next < totalFees THEN [err |-> "ErrBadFees", fees |-> next]
            ELSE SumFees(u, b, i + 1, next)
        validated(r) ==
            IF r.err # "ok" THEN [err |-> r.err, fees |-> totalFees]
            ELSE added((totalFees + r.fee) % UintMod)
    IN  IF i > Len(Txs(b)) THEN [err |-> "ok", fees |-> totalFees]
        ELSE validated(ValidateTxInputs(u, Txs(b)[i], Height(b)))

RECURSIVE SumWrap(_)
SumWrap(vals) ==
    IF vals = <<>> THEN 0 ELSE (vals[1] + SumWrap(Tail(vals))) % UintMod

tryConnectBlockToMainChain(s, b) ==
    LET totalCoinbaseOutput == SumWrap(Vout(Txs(b)[1]))
        expectedCoinbaseOutput(totalFees) ==
            (CalcBlockSubsidy(Height(b)) + totalFees) % UintMod
        applied(r) ==
            IF r.err # "ok" THEN r ELSE [err |-> "ok", s |-> SetTailBlock(r.s, b)]
        checked(utxoSet, scripts, f) ==
            IF scripts # "ok" THEN [err |-> scripts, s |-> s]
            ELSE IF f.err # "ok" THEN [err |-> f.err, s |-> s]
            ELSE IF totalCoinbaseOutput > expectedCoinbaseOutput(f.fees)
            THEN [err |-> "ErrBadCoinbaseValue", s |-> s]
            ELSE applied(applyBlock(s, b, <<utxoSet>>))
        loaded(utxoSet) ==
            checked(utxoSet, validateBlockScripts(utxoSet, b), SumFees(utxoSet, b, 1, 0))
    IN  loaded(LoadBlockUtxos(NewUtxoSet, b, s.dbUtxo))

RECURSIVE findForkUp(_, _, _, _)
\* first loop of findFork: move up the side chain to the main chain height
findForkUp(s, side, i, attach) ==
    IF i <= s.LongestChainHeight THEN [panic |-> FALSE, side |-> side, attach |-> attach]
    ELSE IF side = NilBlock THEN [panic |-> TRUE, side |-> side, attach |-> attach]
    ELSE findForkUp(s, getParentBlock(s, side), i - 1, Append(attach, side))

RECURSIVE findForkWalk_mainNotDetached(_, _, _, _, _)
\* second loop of findFork that does not collect the main chain blocks
findForkWalk_mainNotDetached(s, main, side, detach, attach) ==
    IF main = NilBlock \/ side = NilBlock
    THEN [panic |-> TRUE, fork |-> NilBlock, detach |-> detach, attach |-> attach]
    ELSE IF Height(main) # Height(side)
    THEN [panic |-> TRUE, fork |-> NilBlock, detach |-> detach, attach |-> attach]
    ELSE IF main = side
    THEN [panic |-> Len(attach) <= Len(detach), fork |-> main,
          detach |-> detach, attach |-> attach]
    ELSE findForkWalk_mainNotDetached(s, getParentBlock(s, main), getParentBlock(s, side),
                                      detach, Append(attach, side))

RECURSIVE findForkWalk(_, _, _, _, _)
\* second loop of findFork: compare the two chains height by height
findForkWalk(s, main, side, detach, attach) ==
    IF main = NilBlock \/ side = NilBlock
    THEN [panic |-> TRUE, fork |-> NilBlock, detach |-> detach, attach |-> attach]
    ELSE IF Height(main) # Height(side)
    THEN [panic |-> TRUE, fork |-> NilBlock, detach |-> detach, attach |-> attach]
    ELSE IF main = side
    THEN [panic |-> Len(attach) <= Len(detach), fork |-> main,
          detach |-> detach, attach |-> attach]
    ELSE findForkWalk(s, getParentBlock(s, main), getParentBlock(s, side),
                      Append(detach, main), Append(attach, side))

findFork(s, b) ==
    LET walk(up) ==
            IF up.panic
            THEN [panic |-> TRUE, fork |-> NilBlock, detach |-> <<>>, attach |-> <<>>]
            ELSE findForkWalk(s, s.tail, up.side, <<>>, up.attach)
    IN  IF Height(b) <= s.LongestChainHeight
        THEN [panic |-> TRUE, fork |-> NilBlock, detach |-> <<>>, attach |-> <<>>]
        ELSE walk(findForkUp(s, b, Height(b), <<>>))

RECURSIVE revertBlocks(_, _, _)
\* detach loop of reorganize: from the tip to the fork, fork excluded
revertBlocks(s, detach, i) ==
    LET reverted(r) == IF r.err # "ok" THEN r ELSE revertBlocks(r.s, detach, i + 1)
    IN  IF i > Len(detach) THEN [err |-> "ok", s |-> s]
        ELSE reverted(revertBlock(s, detach[i]))

RECURSIVE applyBlocks(_, _, _)
\* attach loop of reorganize: from the fork to the tip, fork excluded
applyBlocks(s, attach, blockIdx) ==
    LET applied(r) == IF r.err # "ok" THEN r ELSE applyBlocks(r.s, attach, blockIdx - 1)
    IN  IF blockIdx < 1 THEN [err |-> "ok", s |-> s]
        ELSE applied(applyBlock(s, attach[blockIdx], <<>>))

\* reorganize that detaches from the fork point up to the tip
reorganize_detachFromFork(s, b) ==
    LET logged(f, r) ==
            [err |-> r.err,
             s |-> [r.s EXCEPT !.reorgLog = Append(@,
                       [block |-> b, fork |-> f.fork, oldTail |-> s.tail,
                        from |-> Len(s.published) + 1, to |-> Len(r.s.published),
                        err |-> r.err])]]
        detached(f, r1) ==
            IF r1.err # "ok" THEN logged(f, r1)
            ELSE logged(f, applyBlocks(r1.s, f.attach, Len(f.attach)))
        forked(f) ==
            IF f.panic THEN [err |-> "panic", s |-> s]
            ELSE detached(f, revertBlocks(s, [k \in 1..Len(f.detach) |-> f.detach[Len(f.detach) + 1 - k]], 1))
    IN  forked(findFork(s, b))

reorganize(s, b) ==
    LET logged(f, r) ==
            [err |-> r.err,
             s |-> [r.s EXCEPT !.reorgLog = Append(@,
                       [block |-> b, fork |-> f.fork, oldTail |-> s.tail,
                        from |-> Len(s.published) + 1, to |-> Len(r.s.published),
                        err |-> r.err])]]
        detached(f, r1) ==
            IF r1.err # "ok" THEN logged(f, r1)
            ELSE logged(f, applyBlocks(r1.s, f.attach, Len(f.attach)))
        forked(f) ==
            IF f.panic THEN [err |-> "panic", s |-> s]
            ELSE detached(f, revertBlocks(s, f.detach, 1))
    IN  forked(findFork(s, b))

\* tryAcceptBlock without the height check
tryAcceptBlock_noHeightCheck(s, b) ==
    LET reorganized(r) ==
            IF r.err # "ok" THEN r ELSE [err |-> "ok", s |-> SetTailBlock(r.s, b)]
        connect(s1) ==
            IF PrevBlockHash(b) = s1.tail THEN tryConnectBlockToMainChain(s1, b)
            ELSE IF Height(b) <= s1.LongestChainHeight THEN [err |-> "ok", s |-> s1]
            ELSE reorganized(reorganize(s1, b))
        accept(parentBlock) ==
            IF parentBlock = NilBlock THEN [err |-> "ErrParentBlockNotExist", s |-> s]
            ELSE IF ~VerifyMinerEpoch(b)
            THEN [err |-> "ErrFailedToVerifyWithConsensus", s |-> s]
            ELSE connect([s EXCEPT !.cache = @ \cup {b}])
    IN  accept(getParentBlock(s, b))

\* tryAcceptBlock that reorganizes to a side chain of the height of the
\* main chain
tryAcceptBlock_reorgAtEqualHeight(s, b) ==
    LET reorganized(r) ==
            IF r.err # "ok" THEN r ELSE [err |-> "ok", s |-> SetTailBlock(r.s, b)]
        connect(s1) ==
            IF PrevBlockHash(b) = s1.tail THEN tryConnectBlockToMainChain(s1, b)
            ELSE IF Height(b) < s1.LongestChainHeight THEN [err |-> "ok", s |-> s1]
            ELSE reorganized(reorganize(s1, b))
        accept(parentBlock) ==
            IF parentBlock = NilBlock THEN [err |-> "ErrParentBlockNotExist", s |-> s]
            ELSE IF ~VerifyMinerEpoch(b)
            THEN [err |-> "ErrFailedToVerifyWithConsensus", s |-> s]
            ELSE IF Height(b) # Height(parentBlock) + 1
            THEN [err |-> "ErrWrongBlockHeight", s |-> s]
            ELSE connect([s EXCEPT !.cache = @ \cup {b}])
    IN  accept(getParentBlock(s, b))

\* tryAcceptBlock that sets the tail after a reorganization that failed
tryAcceptBlock_tailOnAbort(s, b) ==
    LET reorganized(r) ==
            [err |-> r.err, s |-> SetTailBlock(r.s, b)]
        connect(s1) ==
            IF PrevBlockHash(b) = s1.tail THEN tryConnectBlockToMainChain(s1, b)
            ELSE IF Height(b) <= s1.LongestChainHeight THEN [err |-> "ok", s |-> s1]
            ELSE reorganized(reorganize(s1, b))
        accept(parentBlock) ==
            IF parentBlock = NilBlock THEN [err |-> "ErrParentBlockNotExist", s |-> s]
            ELSE IF ~VerifyMinerEpoch(b)
            THEN [err |-> "ErrFailedToVerifyWithConsensus", s |-> s]
            ELSE IF Height(b) # Height(parentBlock) + 1
            THEN [err |-> "ErrWrongBlockHeight", s |-> s]
            ELSE connect([s EXCEPT !.cache = @ \cup {b}])
    IN  accept(getParentBlock(s, b))

tryAcceptBlock(s, b) ==
    LET reorganized(r) ==
            IF r.err # "ok" THEN r ELSE [err |-> "ok", s |-> SetTailBlock(r.s, b)]
        connect(s1) ==
            IF PrevBlockHash(b) = s1.tail THEN tryConnectBlockToMainChain(s1, b)
            ELSE IF Height(b) <= s1.LongestChainHeight THEN [err |-> "ok", s |-> s1]
            ELSE reorganized(reorganize(s1, b))
        accept(parentBlock) ==
            IF parentBlock = NilBlock THEN [err |-> "ErrParentBlockNotExist", s |-> s]
            ELSE IF ~VerifyMinerEpoch(b)
            THEN [err |-> "ErrFailedToVerifyWithConsensus", s |-> s]
            ELSE IF Height(b) # Height(parentBlock) + 1
            THEN [err |-> "ErrWrongBlockHeight", s |-> s]
            ELSE connect([s EXCEPT !.cache = @ \cup {b}])
    IN  accept(getParentBlock(s, b))

addOrphanBlock(s, orphan, parentHash) ==
    [s EXCEPT !.hashToOrphanBlock = @ \cup {orphan},
              !.orphanBlockHashToChildren[parentHash] = Append(@, orphan)]

RECURSIVE processChildOrphans(_, _, _, _)
\* inner loop of processOrphans over the orphans of one accepted block
processChildOrphans(s, childOrphans, k, acceptedBlocks) ==
    LET tried(r) ==
            IF r.err # "ok"
            THEN [err |-> r.err, s |-> r.s, acceptedBlocks |-> acceptedBlocks]
            ELSE processChildOrphans(r.s, childOrphans, k + 1,
                                     Append(acceptedBlocks, childOrphans[k]))
    IN  IF k > Len(childOrphans)
        THEN [err |-> "ok", s |-> s, acceptedBlocks |-> acceptedBlocks]
        ELSE tried(tryAcceptBlock(
                       [s EXCEPT !.hashToOrphanBlock = @ \ {childOrphans[k]}],
                       childOrphans[k]))

RECURSIVE processOrphansFrom(_, _, _)
\* outer loop of processOrphans over the accepted blocks
processOrphansFrom(s, acceptedBlocks, i) ==
    LET drained(r) ==
            IF r.err # "ok" THEN [err |-> r.err, s |-> r.s]
            ELSE processOrphansFrom(
                     [r.s EXCEPT !.orphanBlockHashToChildren[acceptedBlocks[i]] = <<>>],
                     r.acceptedBlocks, i + 1)
    IN  IF i > Len(acceptedBlocks) THEN [err |-> "ok", s |-> s]
        ELSE drained(processChildOrphans(
                         s, s.orphanBlockHashToChildren[acceptedBlocks[i]],
                         1, acceptedBlocks))

\* processOrphans that ranges over the list of accepted blocks as it is at
\* the start: the orphans of the passed block only
processOrphans_directChildrenOnly(s, b) ==
    LET drained(r) ==
            IF r.err # "ok" THEN [err |-> r.err, s |-> r.s]
            ELSE [err |-> "ok", s |-> [r.s EXCEPT !.orphanBlockHashToChildren[b] = <<>>]]
    IN  drained(processChildOrphans(s, s.orphanBlockHashToChildren[b], 1, <<b>>))

processOrphans(s, b) == processOrphansFrom(s, <<b>>, 1)

\* ProcessBlock.  lightSyncErr is the result of syncManager.ActiveLightSync.
\* The fastConfirm argument only decides whether the accepted block is
\* advertised to the miners through the consensus module; that message has
\* no effect on the chain and is left out.
ProcessBlock(s, b, broadcast, messageFrom, lightSyncErr) ==
    LET height == Height(s.tail)
        orphan(orphaned) ==
            IF height < Height(b) /\ messageFrom # ""
            THEN IF Height(b) - height < Threshold
                 THEN [err |-> IF lightSyncErr THEN "ErrLightSync" ELSE "ok",
                       s |-> [orphaned EXCEPT !.syncCalls =
                                 Append(@, <<"ActiveLightSync", messageFrom>>)]]
                 ELSE [err |-> "ok",
                       s |-> [orphaned EXCEPT !.syncCalls = Append(@, <<"StartSync", "">>)]]
            ELSE [err |-> "ok", s |-> orphaned]
        processed(r2) ==
            IF r2.err # "ok" THEN r2
            ELSE [err |-> "ok",
                  s |-> [r2.s EXCEPT !.sent = IF broadcast THEN Append(@, b) ELSE @]]
        accepted(r1) ==
            IF r1.err # "ok" THEN r1 ELSE processed(processOrphans(r1.s, b))
    IN  IF verifyExists(s, b) THEN [err |-> "ErrBlockExists", s |-> s]
        ELSE IF ~VerifySign(b) THEN [err |-> "ErrFailedToVerifyWithConsensus", s |-> s]
        ELSE IF ~validateBlock(b) THEN [err |-> "ErrInvalidBlock", s |-> s]
        ELSE IF ~blockExists(s, PrevBlockHash(b))
        THEN orphan(addOrphanBlock(s, b, PrevBlockHash(b)))
        ELSE accepted(tryAcceptBlock(s, b))

RECURSIVE FetchToTail(_, _, _, _)
\* the first loop of LocateForkPointAndFetchHeaders: the hashes of
\* currentHeight .. tailHeight
FetchToTail(s, currentHeight, tailHeight, result) ==
    IF currentHeight > tailHeight THEN [err |-> "ok", result |-> result]
    ELSE IF LoadBlockByHeight(s, currentHeight) = NilBlock
    THEN [err |-> "ErrBlockIsNil", result |-> <<>>]
    ELSE FetchToTail(s, currentHeight + 1, tailHeight,
                     Append(result, LoadBlockByHeight(s, currentHeight)))

RECURSIVE FetchMax(_, _, _, _)
\* the second loop: the hashes of currentHeight + idx for idx below
\* MaxBlocksPerSync
FetchMax(s, currentHeight, idx, result) ==
    IF idx >= MaxBlocksPerSync THEN [err |-> "ok", result |-> result]
    ELSE IF LoadBlockByHeight(s, (currentHeight + idx) % UintMod) = NilBlock
    THEN [err |-> "ErrBlockIsNil", result |-> <<>>]
    ELSE FetchMax(s, currentHeight, idx + 1,
                  Append(result, LoadBlockByHeight(s, (currentHeight + idx) % UintMod)))

RECURSIVE LocateFrom(_, _, _)
LocateFrom(s, hashes, index) ==
    LET tailHeight == Height(s.tail)
        fetch(block) ==
            IF (tailHeight - Height(block) + 1) % UintMod < MaxBlocksPerSync
            THEN FetchToTail(s, Height(block) + 1, tailHeight, <<>>)
            ELSE FetchMax(s, Height(block) + 1, 0, <<>>)
    IN  IF index > Len(hashes) THEN [err |-> "ok", result |-> <<>>]
        ELSE IF LoadBlockByHash(s, hashes[index]) = NilBlock
        THEN LocateFrom(s, hashes, index + 1)
        ELSE fetch(LoadBlockByHash(s, hashes[index]))

\* LocateForkPointAndFetchHeaders.  Heights are unsigned integers.
LocateForkPointAndFetchHeaders(s, hashes) == LocateFrom(s, hashes, 1)

\* verifyRepeatedMint: false when the repeated-mint cache holds another
\* block for the time stamp of b
verifyRepeatedMint(s, b) ==
    ~(s.repeatedMintCache[TimeStamp(b)] # NilBlock
        /\ s.repeatedMintCache[TimeStamp(b)] # b)

\* VerifyBlockTimeOut (specification 5.2, step 3): the block is rejected
\* when its time stamp lies more than MaxTimeOffsetSeconds after now
VerifyBlockTimeOut(b, now) ==
    IF TimeStamp(b) > now + MaxTimeOffsetSeconds THEN "ErrFutureBlock" ELSE "ok"

\* core.EvilBehavior (specification 7): the errors that score the sender
\* as bad
EvilBehavior ==
    {"ErrInvalidBlock", "ErrFailedToVerifyWithConsensus", "ErrWrongBlockHeight",
     "ErrParentBlockNotExist", "ErrBadFees", "ErrBadCoinbaseValue",
     "ErrImmatureSpend", "ErrMissingTxOut", "ErrMissingUtxo", "ErrSpendTooHigh",
     "ErrAddExistingUtxo", "ErrRepeatedMintAtSameTime", "ErrFutureBlock"}

BadBlockEvent == "BadBlockEvent"
NewBlockEvent == "NewBlockEvent"

\* processBlockMsg: the handler of an inbound block message from peer
\* `from`.  connEvents is what it publishes on p2p:connevent.
processBlockMsg(s, b, from, unmarshalErr, now, lightSyncErr) ==
    LET processed(r) ==
            IF r.err # "ok" /\ r.err \in EvilBehavior
            THEN [err |-> r.err, s |-> r.s, connEvents |-> <<<<from, BadBlockEvent>>>>]
            ELSE [err |-> "ok", s |-> r.s, connEvents |-> <<<<from, NewBlockEvent>>>>]
    IN  IF unmarshalErr THEN [err |-> "ErrUnmarshal", s |-> s, connEvents |-> <<>>]
        ELSE IF ~verifyRepeatedMint(s, b)
        THEN [err |-> "ErrRepeatedMintAtSameTime", s |-> s, connEvents |-> <<>>]
        ELSE IF VerifyBlockTimeOut(b, now) # "ok"
        THEN [err |-> VerifyBlockTimeOut(b, now), s |-> s, connEvents |-> <<>>]
        ELSE processed(ProcessBlock(s, b, FALSE, from, lightSyncErr))

(***************************************************************************)
(* Script VM (package script).  A script is a sequence of bytes.  The      *)
(* program counter counts from 0 as in the code: the byte at pc is         *)
(* script[pc + 1].  The opcode values, the stack, the script numbers and   *)
(* the cryptographic primitives are not part of the sources at hand; they  *)
(* follow section 4.1 of the specification.  A nil operand is <<>>.        *)
(***************************************************************************)
OpCode ==
    [OPPUSHDATA1 |-> 76, OPPUSHDATA2 |-> 77, OPPUSHDATA4 |-> 78, OP1NEGATE |-> 79,
     OPRESERVED |-> 80, OP1 |-> 81, OP16 |-> 96, OPDUP |-> 118, OPEQUAL |-> 135,
     OPEQUALVERIFY |-> 136, OPADD |-> 147, OPSUB |-> 148, OPHASH160 |-> 169,
     OPCODESEPARATOR |-> 171, OPCHECKSIG |-> 172, OPCHECKSIGVERIFY |-> 173]

\* the length of a HASH160 digest
HashLen == 20

\* binary.LittleEndian
PutUint16(n) == <<n % 256, (n \div 256) % 256>>
PutUint32(n) ==
    <<n % 256, (n \div 256) % 256, (n \div 65536) % 256, (n \div 16777216) % 256>>
\* Uint16 reads the first two bytes of the slice it is given
Uint16(b) == b[1] + 256 * b[2]

NewScript == <<>>
AddOpCode(s, opCode) == Append(s, opCode)
AddScript(s, script) == s \o script

\* AddOperand; uint32(dataLen) is dataLen for the lengths below 2^32
AddOperand(s, operand) ==
    LET dataLen == Len(operand)
    IN  (IF dataLen < OpCode.OPPUSHDATA1 THEN Append(s, dataLen)
         ELSE IF dataLen <= 255 THEN s \o <<OpCode.OPPUSHDATA1, dataLen>>
         ELSE IF dataLen <= 65535
         THEN Append(s, OpCode.OPPUSHDATA2) \o PutUint16(dataLen)
         ELSE Append(s, OpCode.OPPUSHDATA4) \o PutUint32(dataLen))
        \o operand

\* parseNextOp: the next opcode, its operand (for a data push) and the pc
\* after it
parseNextOp(script, pc) ==
    LET scriptLen == Len(script)
        failed(opCode, pc1, err) ==
            [opCode |-> opCode, operand |-> <<>>, pc |-> pc1, err |-> err]
        read(opCode, pc1, operandSize) ==
            IF scriptLen - pc1 < operandSize THEN failed(opCode, pc1, "ErrScriptBound")
            ELSE [opCode |-> opCode, operand |-> SubSeq(script, pc1 + 1, pc1 + operandSize),
                  pc |-> pc1 + operandSize, err |-> "ok"]
        parse(opCode, pc1) ==
            IF opCode > OpCode.OPPUSHDATA4 THEN failed(opCode, pc1, "ok")
            ELSE IF opCode < OpCode.OPPUSHDATA1 THEN read(opCode, pc1, opCode)
            ELSE IF opCode = OpCode.OPPUSHDATA1
            THEN IF scriptLen - pc1 < 1
                 THEN failed(opCode, pc1, "ErrNoEnoughDataOPPUSHDATA1")
                 ELSE read(opCode, pc1 + 1, script[pc1 + 1])
            ELSE IF opCode = OpCode.OPPUSHDATA2
            THEN IF scriptLen - pc1 < 2
                 THEN failed(opCode, pc1, "ErrNoEnoughDataOPPUSHDATA2")
                 ELSE read(opCode, pc1 + 2, Uint16(SubSeq(script, pc1 + 1, pc1 + 2)))
            ELSE IF scriptLen - pc1 < 4
                 THEN failed(opCode, pc1, "ErrNoEnoughDataOPPUSHDATA4")
                 ELSE read(opCode, pc1 + 4, Uint16(SubSeq(script, pc1 + 1, pc1 + 4)))
    IN  IF pc >= scriptLen THEN failed(0, pc, "ErrScriptBound")
        ELSE parse(script[pc + 1], pc + 1)

\* IsPayToScriptHash: OP_HASH160 <20-byte hash> OP_EQUAL
IsPayToScriptHash(script) ==
    /\ Len(script) = 23
    /\ script[1] = OpCode.OPHASH160
    /\ script[2] = 20
    /\ script[23] = OpCode.OPEQUAL

\* the stack: the last element is the top
topN(stack, n) == stack[Len(stack) - n + 1]
pop(stack) == SubSeq(stack, 1, Len(stack) - 1)
operandTrue == <<1>>
operandFalse == <<0>>
\* an operand is true when one of its bytes is not zero
IsTrue(operand) == \E i \in 1..Len(operand) : operand[i] # 0
validateTop(stack) ==
    IF Len(stack) = 0 THEN "ErrScriptValidateTop"
    ELSE IF IsTrue(topN(stack, 1)) THEN "ok" ELSE "ErrScriptFinalStackFalse"

\* script numbers: little-endian magnitude, the sign in the top bit of the
\* last byte, at most four bytes when read
RECURSIVE MagnitudeBytes(_)
MagnitudeBytes(m) == IF m = 0 THEN <<>> ELSE <<m % 256>> \o MagnitudeBytes(m \div 256)
RECURSIVE MagnitudeOf(_)
MagnitudeOf(b) == IF b = <<>> THEN 0 ELSE b[1] + 256 * MagnitudeOf(Tail(b))
\* scriptNum.Bytes
ScriptNumBytes(sn) ==
    LET signed(b) ==
            IF b[Len(b)] >= 128 THEN Append(b, IF sn < 0 THEN 128 ELSE 0)
            ELSE IF sn < 0 THEN [b EXCEPT ![Len(b)] = @ + 128]
            ELSE b
    IN  IF sn = 0 THEN <<>> ELSE signed(MagnitudeBytes(IF sn < 0 THEN 0 - sn ELSE sn))
newScriptNum(b) ==
    IF Len(b) > 4 THEN [err |-> "ErrScriptNumTooBig", sn |-> 0]
    ELSE IF b = <<>> THEN [err |-> "ok", sn |-> 0]
    ELSE IF b[Len(b)] >= 128
    THEN [err |-> "ok", sn |-> 0 - MagnitudeOf([b EXCEPT ![Len(b)] = @ - 128])]
    ELSE [err |-> "ok", sn |-> MagnitudeOf(b)]

\* crypto.Hash160: a digest of HashLen bytes that tells apart all operands
\* shorter than HashLen
Hash160(x) ==
    [i \in 1..HashLen |->
        IF i = 1 THEN Len(x) % 256
        ELSE IF i - 1 <= Len(x) THEN (x[i - 1] + i) % 256
        ELSE i]

\* a transaction as the script VM sees it: the ScriptSig of every input
NewTx(scriptSigs) == [Vin |-> scriptSigs]

\* tx.CalcTxHash: the digest of the transaction as it stands
CalcTxHash(tx) == <<"txhash", tx.Vin>>

\* tx.TxHash: the cached hash of the transaction when it has one (hash is
\* <<>> when it has none), else the digest of the transaction as it stands
TxHash(tx, hash) == IF hash # <<>> THEN hash ELSE CalcTxHash(tx)

\* CalcTxHashForSig run alone: the transaction while it is hashed (the other
\* inputs blanked, input txInIdx carrying scriptPubKey), the digest, and the
\* transaction after the script sigs are put back
CalcTxHashForSig(scriptPubKey, tx, txInIdx) ==
    LET oldScriptSigs == tx.Vin
        draft == [tx EXCEPT !.Vin = [i \in 1..Len(tx.Vin) |->
                    IF i - 1 # txInIdx THEN <<>> ELSE scriptPubKey]]
    IN  IF txInIdx >= Len(tx.Vin)
        THEN [err |-> "ErrInputIndexOutOfBound", sigHash |-> <<>>, tx |-> tx]
        ELSE [err |-> "ok", sigHash |-> CalcTxHash(draft),
              tx |-> [draft EXCEPT !.Vin = oldScriptSigs]]

\* the signature of the key pair of publicKey on sigHash
SignatureOf(publicKey, sigHash) ==
    publicKey \o <<SumSeq([i \in 1..Len(sigHash[2]) |->
                        i * (SumSeq(sigHash[2][i]) + 1)]) % 256>>

\* verifySig: the signature and the key deserialize (they are not empty)
\* and the signature is the one of the key on the signature hash
verifySig(sigStr, publicKeyStr, scriptPubKey, tx, txInIdx) ==
    /\ sigStr # <<>>
    /\ publicKeyStr # <<>>
    /\ CalcTxHashForSig(scriptPubKey, tx, txInIdx).err = "ok"
    /\ sigStr = SignatureOf(publicKeyStr, CalcTxHashForSig(scriptPubKey, tx, txInIdx).sigHash)

\* execOp that checks the depth of OP_EQUAL and OP_EQUALVERIFY for one item only
\* and compares the top item with itself on a stack of one
execOp_equalNeedsOne(script, opCode, pushData, tx, txInIdx, pc, st) ==
    LET stack == st.stack
        done(newStack) ==
            [err |-> "ok", stack |-> newStack, scriptPubKeyStart |-> st.scriptPubKeyStart]
        fail(err, newStack) ==
            [err |-> err, stack |-> newStack, scriptPubKeyStart |-> st.scriptPubKeyStart]
        arith(r1, r2) ==
            IF r1.err # "ok" THEN fail(r1.err, stack)
            ELSE IF r2.err # "ok" THEN fail(r2.err, stack)
            ELSE done(Append(pop(pop(stack)),
                    ScriptNumBytes(IF opCode = OpCode.OPADD THEN r1.sn + r2.sn
                                   ELSE r1.sn - r2.sn)))
        verified(isVerified, failure) ==
            IF opCode \in {OpCode.OPEQUALVERIFY, OpCode.OPCHECKSIGVERIFY}
            THEN IF isVerified THEN done(pop(pop(stack)))
                 ELSE fail(failure, Append(pop(pop(stack)), operandFalse))
            ELSE done(Append(pop(pop(stack)),
                             IF isVerified THEN operandTrue ELSE operandFalse))
    IN  IF opCode <= OpCode.OPPUSHDATA4 THEN done(Append(stack, pushData))
        ELSE IF opCode <= OpCode.OP16 /\ opCode # OpCode.OPRESERVED
        THEN done(Append(stack, ScriptNumBytes(opCode - OpCode.OP1 + 1)))
        ELSE IF opCode = OpCode.OPDUP
        THEN IF Len(stack) < 1 THEN fail("ErrInvalidStackOperation", stack)
             ELSE done(Append(stack, topN(stack, 1)))
        ELSE IF opCode \in {OpCode.OPADD, OpCode.OPSUB}
        THEN IF Len(stack) < 2 THEN fail("ErrInvalidStackOperation", stack)
             ELSE arith(newScriptNum(topN(stack, 2)), newScriptNum(topN(stack, 1)))
        ELSE IF opCode \in {OpCode.OPEQUAL, OpCode.OPEQUALVERIFY}
        THEN IF Len(stack) < 1 THEN fail("ErrInvalidStackOperation", stack)
             ELSE IF Len(stack) < 2 THEN done(<<operandTrue>>)
             ELSE verified(topN(stack, 2) = topN(stack, 1), "ErrScriptEqualVerify")
        ELSE IF opCode = OpCode.OPHASH160
        THEN IF Len(stack) < 1 THEN fail("ErrInvalidStackOperation", stack)
             ELSE done(Append(pop(stack), Hash160(topN(stack, 1))))
        ELSE IF opCode = OpCode.OPCODESEPARATOR
        THEN [err |-> "ok", stack |-> stack, scriptPubKeyStart |-> pc]
        ELSE IF opCode \in {OpCode.OPCHECKSIG, OpCode.OPCHECKSIGVERIFY}
        THEN IF Len(stack) < 2 THEN fail("ErrInvalidStackOperation", stack)
             ELSE verified(verifySig(topN(stack, 2), topN(stack, 1),
                                     SubSeq(script, st.scriptPubKeyStart + 1, Len(script)),
                                     tx, txInIdx),
                           "ErrScriptSignatureVerifyFail")
        ELSE fail("ErrBadOpcode", stack)

\* execOp on st = [stack, scriptPubKeyStart]; pc is the pc after the opcode
execOp(script, opCode, pushData, tx, txInIdx, pc, st) ==
    LET stack == st.stack
        done(newStack) ==
            [err |-> "ok", stack |-> newStack, scriptPubKeyStart |-> st.scriptPubKeyStart]
        fail(err, newStack) ==
            [err |-> err, stack |-> newStack, scriptPubKeyStart |-> st.scriptPubKeyStart]
        arith(r1, r2) ==
            IF r1.err # "ok" THEN fail(r1.err, stack)
            ELSE IF r2.err # "ok" THEN fail(r2.err, stack)
            ELSE done(Append(pop(pop(stack)),
                    ScriptNumBytes(IF opCode = OpCode.OPADD THEN r1.sn + r2.sn
                                   ELSE r1.sn - r2.sn)))
        verified(isVerified, failure) ==
            IF opCode \in {OpCode.OPEQUALVERIFY, OpCode.OPCHECKSIGVERIFY}
            THEN IF isVerified THEN done(pop(pop(stack)))
                 ELSE fail(failure, Append(pop(pop(stack)), operandFalse))
            ELSE done(Append(pop(pop(stack)),
                             IF isVerified THEN operandTrue ELSE operandFalse))
    IN  IF opCode <= OpCode.OPPUSHDATA4 THEN done(Append(stack, pushData))
        ELSE IF opCode <= OpCode.OP16 /\ opCode # OpCode.OPRESERVED
        THEN done(Append(stack, ScriptNumBytes(opCode - OpCode.OP1 + 1)))
        ELSE IF opCode = OpCode.OPDUP
        THEN IF Len(stack) < 1 THEN fail("ErrInvalidStackOperation", stack)
             ELSE done(Append(stack, topN(stack, 1)))
        ELSE IF opCode \in {OpCode.OPADD, OpCode.OPSUB}
        THEN IF Len(stack) < 2 THEN fail("ErrInvalidStackOperation", stack)
             ELSE arith(newScriptNum(topN(stack, 2)), newScriptNum(topN(stack, 1)))
        ELSE IF opCode \in {OpCode.OPEQUAL, OpCode.OPEQUALVERIFY}
        THEN IF Len(stack) < 2 THEN fail("ErrInvalidStackOperation", stack)
             ELSE verified(topN(stack, 2) = topN(stack, 1), "ErrScriptEqualVerify")
        ELSE IF opCode = OpCode.OPHASH160
        THEN IF Len(stack) < 1 THEN fail("ErrInvalidStackOperation", stack)
             ELSE done(Append(pop(stack), Hash160(topN(stack, 1))))
        ELSE IF opCode = OpCode.OPCODESEPARATOR
        THEN [err |-> "ok", stack |-> stack, scriptPubKeyStart |-> pc]
        ELSE IF opCode \in {OpCode.OPCHECKSIG, OpCode.OPCHECKSIGVERIFY}
        THEN IF Len(stack) < 2 THEN fail("ErrInvalidStackOperation", stack)
             ELSE verified(verifySig(topN(stack, 2), topN(stack, 1),
                                     SubSeq(script, st.scriptPubKeyStart + 1, Len(script)),
                                     tx, txInIdx),
                           "ErrScriptSignatureVerifyFail")
        ELSE fail("ErrBadOpcode", stack)

RECURSIVE runFrom(_, _, _, _, _)
\* the loop of evaluate from pc on: the error of the first operation that
\* fails, or "ok" and the stack at the end of the script
runFrom(script, tx, txInIdx, pc, st) ==
    LET executed(r) ==
            IF r.err # "ok" THEN r
            ELSE runFrom(script, tx, txInIdx, r.pc,
                         [stack |-> r.stack, scriptPubKeyStart |-> r.scriptPubKeyStart])
        parsed(p) ==
            IF p.err # "ok"
            THEN [err |-> p.err, stack |-> st.stack,
                  scriptPubKeyStart |-> st.scriptPubKeyStart, pc |-> p.pc]
            ELSE executed([pc |-> p.pc] @@
                          execOp(script, p.opCode, p.operand, tx, txInIdx, p.pc, st))
    IN  IF pc >= Len(script)
        THEN [err |-> "ok", stack |-> st.stack,
              scriptPubKeyStart |-> st.scriptPubKeyStart, pc |-> pc]
        ELSE parsed(parseNextOp(script, pc))

\* evaluate: run the script from an empty stack, then validateTop
evaluate(script, tx, txInIdx) ==
    LET finished(r) == IF r.err # "ok" THEN r.err ELSE validateTop(r.stack)
    IN  finished(runFrom(script, tx, txInIdx, 0, [stack |-> <<>>, scriptPubKeyStart |-> 0]))

\* Validate that runs the locking script alone
Validate_pubKeyOnly(scriptSig, scriptPubKey, tx, txInIdx) ==
    evaluate(scriptPubKey, tx, txInIdx)

\* Validate: the unlocking and the locking script, then for a
\* pay-to-script-hash locking script the redeem script
Validate(scriptSig, scriptPubKey, tx, txInIdx) ==
    LET catScript ==
            AddScript(AddOpCode(AddScript(NewScript, scriptSig), OpCode.OPCODESEPARATOR),
                      scriptPubKey)
        redeem(newScriptSig, p2) ==
            evaluate(AddScript(AddOpCode(AddScript(NewScript, newScriptSig),
                                         OpCode.OPCODESEPARATOR), p2.operand),
                     tx, txInIdx)
        p2sh(p1) ==
            redeem(AddOperand(NewScript, p1.operand), parseNextOp(scriptSig, p1.pc))
        first(err) ==
            IF err # "ok" THEN err
            ELSE IF ~IsPayToScriptHash(scriptPubKey) THEN "ok"
            ELSE p2sh(parseNextOp(scriptSig, 0))
    IN  first(evaluate(catScript, tx, txInIdx))

PayToPubKeyHashScript(pubKeyHash) ==
    AddOpCode(AddOpCode(AddOperand(AddOpCode(AddOpCode(NewScript, OpCode.OPDUP),
        OpCode.OPHASH160), pubKeyHash), OpCode.OPEQUALVERIFY), OpCode.OPCHECKSIG)

SignatureScript(sig, pubKey) == AddOperand(AddOperand(NewScript, sig), pubKey)

\* the pay-to-script-hash locking script of a redeem script
PayToScriptHashScript(redeemScript) ==
    AddOpCode(AddOperand(AddOpCode(NewScript, OpCode.OPHASH160), Hash160(redeemScript)),
              OpCode.OPEQUAL)

(***************************************************************************)
(* Peer score (p2p/pscore).  A DynamicPeerScore is the record s of its     *)
(* fields achievement, punishment, lastUnix and connRecords.  The two      *)
(* float64 components are held in units of 1 / FixOne, rounded down; the   *)
(* uint32 score is held modulo 2^ScoreBits.                                *)
(***************************************************************************)
baseScore == 100
upperLimit == 1000
PunishBadBlock == 60
PunishConnUnsteadiness == 100
AwardNewBlock == 80
FixOne == 1024
ScoreMod == 2 ^ ScoreBits

\* newFactors(60, 1800, 64) and newFactors(600, 18000, 512)
PunishFactors == [halflife |-> 60, lifetime |-> 1800]
AchieveFactors == [halflife |-> 600, lifetime |-> 18000]

\* 2^(-j/10) for j = 0..9, in units of 1 / FixOne
TenthRoots == <<1024, 955, 891, 832, 776, 724, 676, 630, 588, 549>>

\* decayRate(t) = exp(-t * ln 2 / halflife), in units of 1 / FixOne, for
\* the t that are multiples of a tenth of the halflife
decayRate(factors, t) ==
    LET halvings == t \div factors.halflife
        tenths == ((t % factors.halflife) * 10) \div factors.halflife
    IN  IF halvings > 10 THEN 0 ELSE TenthRoots[tenths + 1] \div (2 ^ halvings)

\* x * rate for a component x and a decay rate
Decayed(x, rate) == (x * rate) \div FixOne

\* uint32(x) of a float64 component
uint32(x) == (x \div FixOne) % ScoreMod

NewDynamicPeerScore == [achievement |-> 0, punishment |-> 0, lastUnix |-> 0,
                        connRecords |-> <<>>]

verifyLifeTime(s, dt) ==
    [s EXCEPT !.punishment = IF PunishFactors.lifetime < dt THEN 0 ELSE @,
              !.achievement = IF AchieveFactors.lifetime < dt THEN 0 ELSE @]

\* int(t): the score at time t; it writes the components through
\* verifyLifeTime
int(s, t) ==
    LET dt == t - s.lastUnix
        s1 == verifyLifeTime(s, dt)
    IN  [s |-> s1,
         r |-> (baseScore + uint32(Decayed(s1.achievement, decayRate(AchieveFactors, dt)))
                  - uint32(Decayed(s1.punishment, decayRate(PunishFactors, dt)))) % ScoreMod]

\* the decay of both components that award and punish apply when dt > 0
decayBoth(s, dt) ==
    [s EXCEPT !.achievement = IF @ > FixOne
                              THEN Decayed(@, decayRate(AchieveFactors, dt)) ELSE @,
              !.punishment = IF @ > FixOne
                             THEN Decayed(@, decayRate(PunishFactors, dt)) ELSE @]

scoreOf(s) == (baseScore + uint32(s.achievement) - uint32(s.punishment)) % ScoreMod

award(s, achievement, tu) ==
    LET dt == tu - s.lastUnix
        s1 == IF s.lastUnix # 0 THEN verifyLifeTime(s, dt) ELSE s
        s2 == decayBoth(s1, dt)
        sum == s2.achievement + achievement * FixOne
        s3 == IF dt > 0
              THEN [s2 EXCEPT !.achievement = IF sum > upperLimit * FixOne
                                              THEN upperLimit * FixOne ELSE sum,
                              !.lastUnix = tu]
              ELSE s1
    IN  [s |-> s3, r |-> scoreOf(s3)]

punish(s, punishment, tu) ==
    LET dt == tu - s.lastUnix
        s1 == IF s.lastUnix # 0 THEN verifyLifeTime(s, dt) ELSE s
        s2 == decayBoth(s1, dt)
        s3 == IF dt > 0
              THEN [s2 EXCEPT !.punishment = @ + punishment * FixOne, !.lastUnix = tu]
              ELSE s1
    IN  [s |-> s3, r |-> scoreOf(s3)]

\* the statements of Reset between Lock and Unlock
Reset(s, t) == [s EXCEPT !.achievement = 0, !.lastUnix = t]

(***************************************************************************)
(* The state machine.  The variables are the fields of BlockChain and the  *)
(* storage keys the chain writes.  What a call publishes, broadcasts and   *)
(* requests is part of the result of ProcessBlock (fields published, sent, *)
(* syncCalls and reorgLog of the record it returns).                       *)
(***************************************************************************)
VARIABLES
    tail, eternal, LongestChainHeight,          \* BlockChain fields
    cache, repeatedMintCache, heightToBlock,    \* LRU caches (512 entries each)
    hashToOrphanBlock, orphanBlockHashToChildren,
    filterHolder,
    dbBlock, dbHeight, dbTail, dbEternal,       \* storage keys
    dbUtxo, dbTxIndex,
    submitted,      \* the blocks handed to ProcessBlock so far (SpecLinear only)
    validation,     \* a Validate call: its scripts and its result
    push,           \* an operand, and what parseNextOp reads back from its push
    txVin,          \* ScriptSig of the inputs of a transaction that is being signed
    sigCalls,       \* the CalcTxHashForSig calls running on that transaction
    writer,         \* the ProcessBlock call that holds chainLock, and its position
    observed,       \* what a reader of the chain saw last
    chainBus,       \* per chain instance: the bus it was constructed with, its bus field
    delivered,      \* per event bus: the events its subscribers got
    ps,             \* the DynamicPeerScore of a peer
    mtx,            \* the goroutine that holds ps.mtx, or "free"
    goroutines,     \* per goroutine: the calls on ps it is in, and what the last returned
    unixNow,        \* time.Now().Unix()
    scoreSteps,     \* the calls and clock steps so far
    txHash,         \* the cached hash of the transaction that is being signed
    vm              \* one execOp call: the opcode, the stack before, the outcome

chainVars == <<tail, eternal, LongestChainHeight, cache, repeatedMintCache,
               heightToBlock, hashToOrphanBlock, orphanBlockHashToChildren,
               filterHolder, dbBlock, dbHeight, dbTail, dbEternal, dbUtxo, dbTxIndex>>
scriptVars == <<validation, push, txVin, sigCalls>>
readerVars == <<writer, observed>>
busVars == <<chainBus, delivered>>
scoreVars == <<ps, mtx, goroutines, unixNow, scoreSteps>>
vmVars == <<txHash, vm>>
auxVars == <<readerVars, busVars, scoreVars, vmVars>>
\* the variables outside of one part of the model
notReader == <<submitted, scriptVars, busVars, scoreVars, vmVars>>
notBus == <<chainVars, submitted, scriptVars, readerVars, scoreVars, vmVars>>
notScore == <<chainVars, submitted, scriptVars, readerVars, busVars, vmVars>>
vars == <<chainVars, submitted, scriptVars, auxVars>>

\* the chain as a record, at the start of a call
State ==
    [tail |-> tail, eternal |-> eternal, LongestChainHeight |-> LongestChainHeight,
     cache |-> cache, repeatedMintCache |-> repeatedMintCache,
     heightToBlock |-> heightToBlock, hashToOrphanBlock |-> hashToOrphanBlock,
     orphanBlockHashToChildren |-> orphanBlockHashToChildren,
     filterHolder |-> filterHolder, dbBlock |-> dbBlock, dbHeight |-> dbHeight,
     dbTail |-> dbTail, dbEternal |-> dbEternal, dbUtxo |-> dbUtxo,
     dbTxIndex |-> dbTxIndex,
     published |-> <<>>, sent |-> <<>>, syncCalls |-> <<>>, reorgLog |-> <<>>]

BecomesChain(s) ==
    /\ tail' = s.tail
    /\ eternal' = s.eternal
    /\ LongestChainHeight' = s.LongestChainHeight
    /\ cache' = s.cache
    /\ repeatedMintCache' = s.repeatedMintCache
    /\ heightToBlock' = s.heightToBlock
    /\ hashToOrphanBlock' = s.hashToOrphanBlock
    /\ orphanBlockHashToChildren' = s.orphanBlockHashToChildren
    /\ filterHolder' = s.filterHolder
    /\ dbBlock' = s.dbBlock
    /\ dbHeight' = s.dbHeight
    /\ dbTail' = s.dbTail
    /\ dbEternal' = s.dbEternal
    /\ dbUtxo' = s.dbUtxo
    /\ dbTxIndex' = s.dbTxIndex

Becomes(s) == BecomesChain(s) /\ UNCHANGED <<scriptVars, auxVars>>

\* NewBlockChain on an empty database: the genesis block is stored under
\* its block key, tail and eternal are the genesis block
NewBlockChain ==
    [tail |-> G, eternal |-> G, LongestChainHeight |-> Height(G),
     cache |-> {},
     repeatedMintCache |-> [t \in Heights |-> NilBlock],
     heightToBlock |-> [h \in Heights |-> NilBlock],
     hashToOrphanBlock |-> {},
     orphanBlockHashToChildren |-> [h \in AllBlocks |-> <<>>],
     filterHolder |-> NewFilterHolder,
     dbBlock |-> [h \in AllBlocks |-> IF h = G THEN G ELSE NilBlock],
     dbHeight |-> [h \in Heights |-> NilBlock],
     dbTail |-> NilBlock, dbEternal |-> NilBlock,
     dbUtxo |-> {},
     dbTxIndex |-> [tx \in AllTxs |-> NilIndex],
     published |-> <<>>, sent |-> <<>>, syncCalls |-> <<>>, reorgLog |-> <<>>]

InitChain ==
    /\ tail = NewBlockChain.tail
    /\ eternal = NewBlockChain.eternal
    /\ LongestChainHeight = NewBlockChain.LongestChainHeight
    /\ cache = NewBlockChain.cache
    /\ repeatedMintCache = NewBlockChain.repeatedMintCache
    /\ heightToBlock = NewBlockChain.heightToBlock
    /\ hashToOrphanBlock = NewBlockChain.hashToOrphanBlock
    /\ orphanBlockHashToChildren = NewBlockChain.orphanBlockHashToChildren
    /\ filterHolder = NewBlockChain.filterHolder
    /\ dbBlock = NewBlockChain.dbBlock
    /\ dbHeight = NewBlockChain.dbHeight
    /\ dbTail = NewBlockChain.dbTail
    /\ dbEternal = NewBlockChain.dbEternal
    /\ dbUtxo = NewBlockChain.dbUtxo
    /\ dbTxIndex = NewBlockChain.dbTxIndex
    /\ submitted = {}

(***************************************************************************)
(* The script VM at work: Validate calls, pushes that are parsed back,     *)
(* and CalcTxHashForSig calls that run concurrently on one transaction.    *)
(***************************************************************************)
\* a public key, and the redeem scripts: OP_1 (anyone can spend) and OP_0
\* (nobody can)
PubKeyA == <<2, 7>>
RedeemTrue == <<OpCode.OP1>>
RedeemFalse == <<0>>
\* the signature of PubKeyA that unlocks the pay-to-pubkey-hash script of
\* PubKeyA
SigA ==
    SignatureOf(PubKeyA,
                CalcTxHash(NewTx(<<PayToPubKeyHashScript(Hash160(PubKeyA))>>)))

\* the operands an unlocking script pushes
Items == {<<>>, RedeemTrue, RedeemFalse, PubKeyA, SigA}

RECURSIVE PushAll(_, _)
\* the script that pushes items[i..]
PushAll(items, i) ==
    IF i > Len(items) THEN NewScript
    ELSE AddOperand(NewScript, items[i]) \o PushAll(items, i + 1)

\* unlocking scripts: up to MaxPushes pushes, an opcode that is no push, a
\* truncated push
ScriptSigs ==
    {PushAll(items, 1) : items \in UNION {[1..n -> Items] : n \in 0..MaxPushes}}
        \cup {<<OpCode.OP1>>, <<OpCode.OPDUP>>, <<2, 1>>}

ScriptPubKeys ==
    {PayToScriptHashScript(RedeemTrue), PayToScriptHashScript(RedeemFalse),
     PayToPubKeyHashScript(Hash160(PubKeyA)),
     NewScript, <<OpCode.OP1>>, <<OpCode.OPEQUAL>>, <<OpCode.OPADD>>, <<255>>}

NoValidation == [scriptSig |-> NewScript, scriptPubKey |-> NewScript, err |-> "idle"]

\* the lengths of the operands: around the lengths at which AddOperand
\* changes the push opcode
Boundaries == {0, 76, 256, 65536}
OperandLens ==
    {n \in 0..(65536 + MaxRun) : \E b \in Boundaries : b - MaxRun <= n /\ n <= b + MaxRun}
Seeds == {1, 3, 255}
\* the operand of length len made from seed
OperandOf(len, seed) == [i \in 1..len |-> (i * seed) % 256]

NoPush == [len |-> 0, seed |-> 0, err |-> "idle", pc |-> 0, size |-> 0]

\* the transaction that is signed, and the calls
OrigScriptSigs == <<<<1>>, <<2>>>>
Threads == {1, 2}
SigScripts == {<<OpCode.OPDUP>>, <<OpCode.OPEQUAL>>}
NoCall ==
    [scriptPubKey |-> NewScript, txInIdx |-> 0, pc |-> "idle", i |-> 0,
     oldScriptSigs |-> <<>>, sigHash |-> <<>>, err |-> "ok"]

ScriptIdle ==
    /\ validation = NoValidation
    /\ push = NoPush
    /\ txVin = OrigScriptSigs
    /\ sigCalls = [t \in Threads |-> NoCall]

\* no call holds chainLock
NoWriter == [pc |-> "idle", block |-> NilBlock]

\* the reader has not read yet
NoRead == [height |-> 0, tail |-> NilBlock, block |-> NilBlock]

\* the event buses of the process: the one eventbus.Default() returns and
\* two that callers made with eventbus.New()
DefaultBus == "default"
Buses == {DefaultBus, "bus1", "bus2"}
Instances == {1, 2}
\* a chain instance that is not constructed yet
NoInstance == [given |-> "none", bus |-> "none"]

BusIdle ==
    /\ chainBus = [i \in Instances |-> NoInstance]
    /\ delivered = [bus \in Buses |-> {}]

\* the goroutines that use the score of the peer
Goroutines == {"g1", "g2"}
\* the clock at the start, later than every lifetime after time 0
StartUnix == 20040
\* the seconds the clock moves by in one step
Elapses == {60, 1860}
\* a goroutine outside of every call
NoFrames == [stack |-> <<>>, ret |-> 0]

ScoreIdle ==
    /\ ps = NewDynamicPeerScore
    /\ mtx = "free"
    /\ goroutines = [g \in Goroutines |-> NoFrames]
    /\ unixNow = StartUnix
    /\ scoreSteps = 0

\* no execOp call
NoExec == [opCode |-> 0, stack |-> <<>>, r |-> [err |-> "idle"]]

\* the parts of the model outside the chain and the script VM, at rest
PartsIdle ==
    /\ vm = NoExec
    /\ writer = NoWriter
    /\ observed = NoRead
    /\ BusIdle
    /\ ScoreIdle

AuxIdle ==
    /\ PartsIdle
    /\ txHash = <<>>

Init == InitChain /\ ScriptIdle /\ AuxIdle

\* --- Validate ---
InitValidate ==
    /\ AuxIdle
    /\ InitChain
    /\ validation \in [scriptSig : ScriptSigs, scriptPubKey : ScriptPubKeys, err : {"none"}]
    /\ push = NoPush
    /\ txVin = OrigScriptSigs
    /\ sigCalls = [t \in Threads |-> NoCall]

\* Validate on input 0 of a transaction whose input carries scriptSig
DoValidate ==
    /\ validation.err = "none"
    /\ validation' = [validation EXCEPT !.err =
            Validate(validation.scriptSig, validation.scriptPubKey,
                     NewTx(<<validation.scriptSig>>), 0)]
    /\ UNCHANGED <<chainVars, submitted, auxVars, push, txVin, sigCalls>>

NextValidate == DoValidate

SpecValidate == InitValidate /\ [][NextValidate]_vars

\* --- AddOperand, then parseNextOp ---
InitPush ==
    /\ AuxIdle
    /\ InitChain
    /\ validation = NoValidation
    /\ push \in [len : OperandLens, seed : Seeds, err : {"none"}, pc : {0}, size : {0}]
    /\ txVin = OrigScriptSigs
    /\ sigCalls = [t \in Threads |-> NoCall]

\* the result of parseNextOp at pc 0 of the script AddOperand makes
ParsedPush(len, seed) == parseNextOp(AddOperand(NewScript, OperandOf(len, seed)), 0)

DoParsePush ==
    LET parsed(r) ==
            push' = [push EXCEPT !.err = r.err, !.pc = r.pc, !.size = Len(r.operand)]
    IN  /\ push.err = "none"
        /\ parsed(ParsedPush(push.len, push.seed))
        /\ UNCHANGED <<chainVars, submitted, auxVars, validation, txVin, sigCalls>>

NextPush == DoParsePush

SpecPush == InitPush /\ [][NextPush]_vars

\* --- CalcTxHashForSig, statement by statement, two calls at once ---
InitSigHash ==
    /\ AuxIdle
    /\ InitChain
    /\ validation = NoValidation
    /\ push = NoPush
    /\ txVin = OrigScriptSigs
    /\ sigCalls \in [Threads -> [scriptPubKey : SigScripts, txInIdx : 0..Len(OrigScriptSigs),
                                 pc : {"start"}, i : {0}, oldScriptSigs : {<<>>},
                                 sigHash : {<<>>}, err : {"ok"}]]

\* if txInIdx >= len(tx.Vin) { return nil, ErrInputIndexOutOfBound }
SigStart(t) ==
    /\ sigCalls[t].pc = "start"
    /\ sigCalls' = [sigCalls EXCEPT ![t] =
            IF @.txInIdx >= Len(txVin)
            THEN [@ EXCEPT !.pc = "done", !.err = "ErrInputIndexOutOfBound"]
            ELSE [@ EXCEPT !.pc = "save"]]
    /\ UNCHANGED txVin

\* oldScriptSigs = append(oldScriptSigs, txIn.ScriptSig)
SigSave(t) ==
    /\ sigCalls[t].pc = "save"
    /\ sigCalls' = [sigCalls EXCEPT ![t] =
            [@ EXCEPT !.oldScriptSigs = Append(@, txVin[sigCalls[t].i + 1]),
                      !.pc = "replace"]]
    /\ UNCHANGED txVin

\* txIn.ScriptSig = nil, or scriptPubKey for input txInIdx
SigReplace(t) ==
    /\ sigCalls[t].pc = "replace"
    /\ txVin' = [txVin EXCEPT ![sigCalls[t].i + 1] =
            IF sigCalls[t].i # sigCalls[t].txInIdx THEN <<>>
            ELSE sigCalls[t].scriptPubKey]
    /\ sigCalls' = [sigCalls EXCEPT ![t] =
            [@ EXCEPT !.i = IF @ + 1 < Len(txVin) THEN @ + 1 ELSE 0,
                      !.pc = IF sigCalls[t].i + 1 < Len(txVin) THEN "save" ELSE "hash"]]

\* sigHash, err := tx.CalcTxHash()
SigHash(t) ==
    /\ sigCalls[t].pc = "hash"
    /\ sigCalls' = [sigCalls EXCEPT ![t] =
            [@ EXCEPT !.sigHash = CalcTxHash(NewTx(txVin)), !.pc = "recover"]]
    /\ UNCHANGED txVin

\* txIn.ScriptSig = oldScriptSigs[i]
SigRecover(t) ==
    /\ sigCalls[t].pc = "recover"
    /\ txVin' = [txVin EXCEPT ![sigCalls[t].i + 1] =
            sigCalls[t].oldScriptSigs[sigCalls[t].i + 1]]
    /\ sigCalls' = [sigCalls EXCEPT ![t] =
            [@ EXCEPT !.i = @ + 1,
                      !.pc = IF sigCalls[t].i + 1 < Len(txVin) THEN "recover" ELSE "done"]]

DoSigStart == \E t \in Threads : SigStart(t) /\ UNCHANGED <<chainVars, submitted, auxVars, validation, push>>
DoSigSave == \E t \in Threads : SigSave(t) /\ UNCHANGED <<chainVars, submitted, auxVars, validation, push>>
DoSigReplace == \E t \in Threads : SigReplace(t) /\ UNCHANGED <<chainVars, submitted, auxVars, validation, push>>
DoSigHash == \E t \in Threads : SigHash(t) /\ UNCHANGED <<chainVars, submitted, auxVars, validation, push>>
DoSigRecover == \E t \in Threads : SigRecover(t) /\ UNCHANGED <<chainVars, submitted, auxVars, validation, push>>

NextSigHash == DoSigStart \/ DoSigSave \/ DoSigReplace \/ DoSigHash \/ DoSigRecover

SpecSigHash == InitSigHash /\ [][NextSigHash]_vars

(***************************************************************************)
(* One CalcTxHashForSig call that runs alone, on a transaction that has a  *)
(* cached hash or has none.  The file holds two copies of the function:    *)
(* they differ in the statement that computes the digest.                  *)
(***************************************************************************)
InitSigAlone ==
    /\ PartsIdle
    /\ InitChain
    /\ validation = NoValidation
    /\ push = NoPush
    /\ txVin = OrigScriptSigs
    /\ txHash \in {<<>>, CalcTxHash(NewTx(OrigScriptSigs)),
                   CalcTxHash(NewTx([i \in 1..Len(OrigScriptSigs) |-> <<>>]))}
    /\ \E call \in [scriptPubKey : SigScripts, txInIdx : 0..Len(OrigScriptSigs),
                     pc : {"start"}, i : {0}, oldScriptSigs : {<<>>},
                     sigHash : {<<>>}, err : {"ok"}] :
           sigCalls = [t \in Threads |-> IF t = 1 THEN call ELSE NoCall]

\* sigHash, err := tx.TxHash(), the statement of the earlier copy
SigHashEarlier(t) ==
    /\ sigCalls[t].pc = "hash"
    /\ sigCalls' = [sigCalls EXCEPT ![t] =
            [@ EXCEPT !.sigHash = TxHash(NewTx(txVin), txHash), !.pc = "recover"]]
    /\ UNCHANGED txVin

DoSigHashEarlier ==
    \E t \in Threads : SigHashEarlier(t) /\ UNCHANGED <<chainVars, submitted, auxVars, validation, push>>

NextSigAlone == DoSigStart \/ DoSigSave \/ DoSigReplace \/ DoSigHash \/ DoSigHashEarlier
                \/ DoSigRecover

SpecSigAlone == InitSigAlone /\ [][NextSigAlone]_vars

(***************************************************************************)
(* One execOp call, of every kind of operation, on every stack of at most  *)
(* MaxDepth operands.                                                      *)
(***************************************************************************)
\* the signature of PubKeyA on the transaction whose locking script is the
\* one operation opCode
ExecSig(opCode) == SignatureOf(PubKeyA, CalcTxHash(NewTx(<<<<opCode>>>>)))
ExecOperands == {<<>>, <<1>>, <<2>>, PubKeyA, ExecSig(OpCode.OPCHECKSIG)}
ExecStacks == UNION {[1..k -> ExecOperands] : k \in 0..MaxDepth}
\* a data push, a small number, the operations of the switch and an opcode
\* outside of it
ExecOpCodes ==
    {1, OpCode.OP1, OpCode.OPDUP, OpCode.OPADD, OpCode.OPSUB, OpCode.OPEQUAL,
     OpCode.OPEQUALVERIFY, OpCode.OPHASH160, OpCode.OPCODESEPARATOR,
     OpCode.OPCHECKSIG, OpCode.OPCHECKSIGVERIFY, OpCode.OPRESERVED}

InitExecOp ==
    /\ InitChain
    /\ ScriptIdle
    /\ writer = NoWriter
    /\ observed = NoRead
    /\ BusIdle
    /\ ScoreIdle
    /\ txHash = <<>>
    /\ vm \in [opCode : ExecOpCodes, stack : ExecStacks, r : {[err |-> "none"]}]

\* execOp of the one operation of the script <<opCode>>, with the operand
\* <<7>> as its push data, on input 0 of a transaction with one input
DoExecOp ==
    /\ vm.r.err = "none"
    /\ vm' = [vm EXCEPT !.r =
            execOp(<<vm.opCode>>, vm.opCode, <<7>>, NewTx(<<<<>>>>), 0, 1,
                   [stack |-> vm.stack, scriptPubKeyStart |-> 0])]
    /\ UNCHANGED <<chainVars, submitted, scriptVars, readerVars, busVars, scoreVars, txHash>>

NextExecOp == DoExecOp

SpecExecOp == InitExecOp /\ [][NextExecOp]_vars
\* the results ActiveLightSync can have in a call: it is called for an
\* orphan above the tail that a peer sent
LightSyncResults(s, b, messageFrom) ==
    IF ~blockExists(s, PrevBlockHash(b)) /\ Height(s.tail) < Height(b) /\ messageFrom # ""
    THEN BOOLEAN ELSE {FALSE}

\* one call of ProcessBlock
DoProcessBlock ==
    \E b \in {G} \cup Blocks, broadcast \in BOOLEAN, messageFrom \in Peers :
        \E lightSyncErr \in LightSyncResults(State, b, messageFrom) :
            /\ Becomes(ProcessBlock(State, b, broadcast, messageFrom, lightSyncErr).s)
            /\ UNCHANGED submitted

Next == DoProcessBlock

Spec == Init /\ [][Next]_vars

\* the blocks of chain L, each handed to ProcessBlock once, in any order
DoProcessLinear ==
    \E b \in ChainL \ submitted, broadcast \in BOOLEAN, messageFrom \in Peers :
        \E lightSyncErr \in LightSyncResults(State, b, messageFrom) :
            /\ Becomes(ProcessBlock(State, b, broadcast, messageFrom, lightSyncErr).s)
            /\ submitted' = submitted \cup {b}

NextLinear == DoProcessLinear

SpecLinear == Init /\ [][NextLinear]_vars

(***************************************************************************)
(* A node that connects chain L while its peers ask it for headers.        *)
(***************************************************************************)
\* the candidate hashes a peer can send: known and unknown ones
CandidateHashes == {G, <<"A", 1>>} \cup ChainL
Candidates == UNION {[1..n -> CandidateHashes] : n \in 0..MaxCand}

\* one call of LocateForkPointAndFetchHeaders; it only reads the chain
DoLocateForkPoint ==
    \E hashes \in Candidates :
        /\ LocateForkPointAndFetchHeaders(State, hashes).err \in {"ok", "ErrBlockIsNil"}
        /\ UNCHANGED vars

NextSync == DoProcessLinear \/ DoLocateForkPoint

SpecSync == Init /\ [][NextSync]_vars

(***************************************************************************)
(* A node that receives the blocks of NodeBlocks from its peers, mints or  *)
(* syncs them (ProcessBlock called directly), and whose consensus module   *)
(* finalizes blocks through SetEternal.                                    *)
(***************************************************************************)
\* the readings of the clock: at the first one every block of the universe
\* lies too far in the future, at the second one none does
Nows == {TimeStamp(G) - MaxTimeOffsetSeconds, TimeStamp(G)}

\* one inbound block message
DoProcessBlockMsg ==
    \E b \in NodeBlocks, unmarshalErr \in BOOLEAN, now \in Nows :
        \E lightSyncErr \in LightSyncResults(State, b, "p1") :
            /\ Becomes(processBlockMsg(State, b, "p1", unmarshalErr, now, lightSyncErr).s)
            /\ UNCHANGED submitted

\* one direct call of ProcessBlock (a minted block, a block fetched by sync)
DoProcessNodeBlock ==
    \E b \in NodeBlocks, broadcast \in BOOLEAN, messageFrom \in Peers :
        \E lightSyncErr \in LightSyncResults(State, b, messageFrom) :
            /\ Becomes(ProcessBlock(State, b, broadcast, messageFrom, lightSyncErr).s)
            /\ UNCHANGED submitted

\* one call of SetEternal
DoSetEternal ==
    \E block \in {G} \cup NodeBlocks, storeErr \in BOOLEAN :
        /\ Becomes(SetEternal(State, block, storeErr).s)
        /\ UNCHANGED submitted

NextNode == DoProcessBlockMsg \/ DoProcessNodeBlock \/ DoSetEternal

SpecNode == Init /\ [][NextNode]_vars

(***************************************************************************)
(* A ProcessBlock call that runs statement by statement while a reader     *)
(* calls TailBlock, GetBlockHeight and LoadBlockByHash.  ProcessBlock      *)
(* holds chainLock from its first statement to its return; the readers     *)
(* take no lock, so that they run between any two of its statements.  The  *)
(* call is ProcessBlock(b, false, ""); its steps are the calls of          *)
(* revertBlock and applyBlock and the assignments of SetTailBlock.         *)
(***************************************************************************)
\* the chain at the return of the running call
Returned == ProcessBlock(writer.s0, writer.block, FALSE, "", FALSE).s

\* the running call with the cache entry of tryAcceptBlock added
Cached(b) == [State EXCEPT !.cache = @ \cup {b}]

\* the call passes the checks of ProcessBlock and of tryAcceptBlock that
\* come before the block is connected
ReachesConnect(b) ==
    /\ ~verifyExists(State, b)
    /\ VerifySign(b)
    /\ validateBlock(b)
    /\ blockExists(State, PrevBlockHash(b))
    /\ getParentBlock(State, b) # NilBlock
    /\ VerifyMinerEpoch(b)
    /\ Height(b) = Height(getParentBlock(State, b)) + 1

NoFork == [panic |-> FALSE, fork |-> NilBlock, detach |-> <<>>, attach |-> <<>>]

\* chainLock.Lock() up to the first change of the main chain: the call
\* returns before it, or it has applied b on the tail, or it has found the
\* fork and starts to detach
DoLock ==
    \E b \in NodeBlocks :
        /\ writer.pc = "idle"
        /\ UNCHANGED <<notReader, observed>>
        /\ IF ReachesConnect(b) /\ PrevBlockHash(b) = tail
              /\ tryConnectBlockToMainChain(Cached(b), b).err = "ok"
           THEN /\ BecomesChain(applyBlock(Cached(b), b,
                                  <<LoadBlockUtxos(NewUtxoSet, b, dbUtxo)>>).s)
                /\ writer' = [pc |-> "height", block |-> b, s0 |-> State,
                              fork |-> NoFork, i |-> 0]
           ELSE IF ReachesConnect(b) /\ PrevBlockHash(b) # tail
                   /\ Height(b) > LongestChainHeight /\ ~findFork(Cached(b), b).panic
           THEN /\ BecomesChain(Cached(b))
                /\ writer' = [pc |-> "revert", block |-> b, s0 |-> State,
                              fork |-> findFork(Cached(b), b), i |-> 1]
           ELSE /\ BecomesChain(ProcessBlock(State, b, FALSE, "", FALSE).s)
                /\ writer' = writer

\* one turn of the detach loop of reorganize
DoRevertBlock ==
    /\ writer.pc = "revert"
    /\ UNCHANGED <<notReader, observed>>
    /\ BecomesChain(revertBlock(State, writer.fork.detach[writer.i]).s)
    /\ writer' = IF writer.i < Len(writer.fork.detach)
                 THEN [writer EXCEPT !.i = @ + 1]
                 ELSE [writer EXCEPT !.pc = "apply", !.i = Len(writer.fork.attach)]

\* one turn of the attach loop of reorganize; ProcessBlock returns when
\* applyBlock fails
DoApplyBlock ==
    /\ writer.pc = "apply"
    /\ UNCHANGED <<notReader, observed>>
    /\ IF applyBlock(State, writer.fork.attach[writer.i], <<>>).err # "ok"
       THEN /\ BecomesChain(Returned)
            /\ writer' = NoWriter
       ELSE /\ BecomesChain(applyBlock(State, writer.fork.attach[writer.i], <<>>).s)
            /\ writer' = IF writer.i > 1 THEN [writer EXCEPT !.i = @ - 1]
                         ELSE [writer EXCEPT !.pc = "height"]

\* SetTailBlock up to chain.LongestChainHeight = tail.Height
DoSetHeight ==
    /\ writer.pc = "height"
    /\ UNCHANGED <<notReader, observed>>
    /\ BecomesChain(SetTailBlock_untilHeight(State, writer.block))
    /\ writer' = [writer EXCEPT !.pc = "tail"]

\* chain.tail = tail, then the orphans of the block, then the return and
\* chainLock.Unlock()
DoSetTail ==
    /\ writer.pc = "tail"
    /\ UNCHANGED <<notReader, observed>>
    /\ BecomesChain(Returned)
    /\ writer' = NoWriter

\* a reader: GetBlockHeight, TailBlock and LoadBlockByHash of the tail it
\* got, one after the other
DoRead ==
    /\ observed' = [height |-> GetBlockHeight(State), tail |-> TailBlock(State),
                    block |-> LoadBlockByHash(State, TailBlock(State))]
    /\ UNCHANGED <<chainVars, notReader, writer>>

NextReader == DoLock \/ DoRevertBlock \/ DoApplyBlock \/ DoSetHeight \/ DoSetTail \/ DoRead

SpecReader == Init /\ [][NextReader]_vars

(***************************************************************************)
(* Two chain instances of one process and the event buses they publish on. *)
(***************************************************************************)
\* the bus field NewBlockChain gives the chain it returns
NewBlockChainBus(bus) == DefaultBus

\* NewBlockChain(parent, notifiee, db, bus)
DoNewBlockChain ==
    \E i \in Instances, bus \in Buses :
        /\ chainBus[i] = NoInstance
        /\ chainBus' = [chainBus EXCEPT ![i] = [given |-> bus, bus |-> NewBlockChainBus(bus)]]
        /\ UNCHANGED <<notBus, delivered>>

\* bus.Publish(topic, args): the subscribers of the bus get the event
Publish(bus, i, topic, msg) ==
    delivered' = [delivered EXCEPT ![bus] = @ \cup {[chain |-> i, topic |-> topic, msg |-> msg]}]

\* notifyBlockConnectionUpdate(block, connected) of instance i
DoNotifyBlockConnectionUpdate ==
    \E i \in Instances, b \in {<<"A", 1>>}, connected \in BOOLEAN :
        /\ chainBus[i] # NoInstance
        /\ Publish(chainBus[i].bus, i, "chain:update", UpdateMsg(b, connected))
        /\ UNCHANGED <<notBus, chainBus>>

\* the p2p:connevent that processBlockMsg of instance i publishes
DoPublishConnEvent ==
    \E i \in Instances, event \in {BadBlockEvent, NewBlockEvent} :
        /\ chainBus[i] # NoInstance
        /\ Publish(chainBus[i].bus, i, "p2p:connevent", <<"p1", event>>)
        /\ UNCHANGED <<notBus, chainBus>>

NextBus == DoNewBlockChain \/ DoNotifyBlockConnectionUpdate \/ DoPublishConnEvent

SpecBus == Init /\ [][NextBus]_vars

(***************************************************************************)
(* Goroutines that call the methods of one DynamicPeerScore.  A call is a  *)
(* frame on the stack of its goroutine; the frame of a method that takes   *)
(* the mutex is at "lock" until Lock returns, then at "body", then at      *)
(* "unlock".  String calls Int and Disconnect calls Reset: the callee is a *)
(* frame above the frame of the caller.                                    *)
(***************************************************************************)
Methods == {[op |-> "String", arg |-> 0], [op |-> "Int", arg |-> 0],
            [op |-> "Award", arg |-> AwardNewBlock],
            [op |-> "Punish", arg |-> PunishBadBlock],
            [op |-> "Punish", arg |-> PunishConnUnsteadiness],
            [op |-> "Disconnect", arg |-> 0]}

Top(g) == goroutines[g].stack[Len(goroutines[g].stack)]
At(g, ops, pc) ==
    /\ goroutines[g].stack # <<>>
    /\ Top(g).op \in ops
    /\ Top(g).pc = pc
\* the stack of g with its top frame at pc
TopAt(g, pc) == [goroutines[g].stack EXCEPT ![Len(goroutines[g].stack)].pc = pc]
Popped(g) == SubSeq(goroutines[g].stack, 1, Len(goroutines[g].stack) - 1)

\* time passes
DoTick ==
    \E d \in Elapses :
        /\ scoreSteps < MaxScoreSteps
        /\ unixNow' = unixNow + d
        /\ scoreSteps' = scoreSteps + 1
        /\ UNCHANGED <<notScore, ps, mtx, goroutines>>

\* a goroutine calls a method of the score
DoCall ==
    \E g \in Goroutines, m \in Methods :
        /\ goroutines[g].stack = <<>>
        /\ scoreSteps < MaxScoreSteps
        /\ scoreSteps' = scoreSteps + 1
        /\ goroutines' = [goroutines EXCEPT ![g].stack =
               <<[op |-> m.op, arg |-> m.arg,
                  pc |-> IF m.op = "Disconnect" THEN "body" ELSE "lock"]>>]
        /\ UNCHANGED <<notScore, ps, mtx, unixNow>>

\* s.mtx.Lock() returns: the mutex was free
DoMtxLock ==
    \E g \in Goroutines :
        /\ At(g, {"String", "Int", "Award", "Punish", "Reset"}, "lock")
        /\ mtx = "free"
        /\ mtx' = g
        /\ goroutines' = [goroutines EXCEPT ![g].stack = TopAt(g, "body")]
        /\ UNCHANGED <<notScore, ps, unixNow, scoreSteps>>

\* String, with the mutex: the arguments of Sprintf, s.Int() among them
DoStringInt ==
    \E g \in Goroutines :
        /\ At(g, {"String"}, "body")
        /\ goroutines' = [goroutines EXCEPT ![g].stack =
               Append(TopAt(g, "unlock"), [op |-> "Int", arg |-> 0, pc |-> "lock"])]
        /\ UNCHANGED <<notScore, ps, mtx, unixNow, scoreSteps>>

\* Disconnect: connRecords.PushBack(t), then s.Reset(t)
DoDisconnect ==
    \E g \in Goroutines :
        /\ At(g, {"Disconnect"}, "body")
        /\ ps' = [ps EXCEPT !.connRecords = Append(@, unixNow)]
        /\ goroutines' = [goroutines EXCEPT ![g].stack =
               Append(TopAt(g, "return"), [op |-> "Reset", arg |-> unixNow, pc |-> "lock"])]
        /\ UNCHANGED <<notScore, mtx, unixNow, scoreSteps>>

\* Int, Award, Punish and Reset between Lock and Unlock
DoBody ==
    \E g \in Goroutines :
        /\ At(g, {"Int", "Award", "Punish", "Reset"}, "body")
        /\ LET done(res) ==
                   /\ ps' = res.s
                   /\ goroutines' = [goroutines EXCEPT ![g].stack = TopAt(g, "unlock"),
                                                       ![g].ret = res.r]
           IN  CASE Top(g).op = "Int" -> done(int(ps, unixNow))
                 [] Top(g).op = "Award" -> done(award(ps, Top(g).arg, unixNow))
                 [] Top(g).op = "Punish" -> done(punish(ps, Top(g).arg, unixNow))
                 [] Top(g).op = "Reset" ->
                        done([s |-> Reset(ps, Top(g).arg), r |-> goroutines[g].ret])
        /\ UNCHANGED <<notScore, mtx, unixNow, scoreSteps>>

\* s.mtx.Unlock() and the return of the method
DoMtxUnlock ==
    \E g \in Goroutines :
        /\ At(g, {"String", "Int", "Award", "Punish", "Reset"}, "unlock")
        /\ mtx' = "free"
        /\ goroutines' = [goroutines EXCEPT ![g].stack = Popped(g)]
        /\ UNCHANGED <<notScore, ps, unixNow, scoreSteps>>

\* the return of Disconnect
DoReturn ==
    \E g \in Goroutines :
        /\ At(g, {"Disconnect"}, "return")
        /\ goroutines' = [goroutines EXCEPT ![g].stack = Popped(g)]
        /\ UNCHANGED <<notScore, ps, mtx, unixNow, scoreSteps>>

\* the steps of a call that is under way
ScoreStep == DoMtxLock \/ DoStringInt \/ DoDisconnect \/ DoBody \/ DoMtxUnlock \/ DoReturn

NextScore == DoTick \/ DoCall \/ DoMtxLock \/ DoStringInt \/ DoDisconnect \/ DoBody
             \/ DoMtxUnlock \/ DoReturn

SpecScore == Init /\ [][NextScore]_vars

\* the scheduler runs every goroutine that can take a step
SpecScoreFair == SpecScore /\ WF_vars(ScoreStep)

(***************************************************************************)
(* Notions the properties are stated with.                                 *)
(***************************************************************************)
RECURSIVE ChainTo(_)
\* the blocks from genesis to b, following the parent hashes
ChainTo(b) == IF b = G THEN <<G>> ELSE Append(ChainTo(PrevBlockHash(b)), b)

\* the arguments of a ProcessBlock call in the current state
Calls ==
    {c \in [block : {G} \cup Blocks, broadcast : BOOLEAN, from : Peers,
            lightSyncErr : BOOLEAN] :
        c.lightSyncErr \in LightSyncResults(State, c.block, c.from)}

\* the result of ProcessBlock called with c in the current state
Result(c) == ProcessBlock(State, c.block, c.broadcast, c.from, c.lightSyncErr)

\* the fields of a chain record that a call can change without changing
\* the chain: what it sent out
ChainOf(s) == [s EXCEPT !.published = <<>>, !.sent = <<>>, !.syncCalls = <<>>,
                        !.reorgLog = <<>>]

\* the main chain as the chain holds it
MainChain == ChainTo(tail)

RECURSIVE ConnectAll(_, _, _)
\* the blocks chain[i..] connected one after the other as main chain
\* extensions of s: "ok", or the error of the first block that is rejected
ConnectAll(s, chain, i) ==
    IF i > Len(chain) THEN "ok"
    ELSE LET r == tryConnectBlockToMainChain(s, chain[i])
         IN  IF r.err # "ok" THEN r.err ELSE ConnectAll(r.s, chain, i + 1)

RECURSIVE ReplayUtxo(_, _, _)
\* the stored UTXO set after applying the blocks chain[i..] to utxoDb
ReplayUtxo(utxoDb, chain, i) ==
    IF i > Len(chain) THEN utxoDb
    ELSE LET u == LoadBlockUtxos(NewUtxoSet, chain[i], utxoDb)
             r == UtxoApplyBlock(u, chain[i])
         IN  ReplayUtxo(WriteUtxoSetToDB(r.u, utxoDb), chain, i + 1)

\* the UTXO set of the chain from genesis to b (the genesis block itself is
\* never applied by NewBlockChain)
UtxoOfChain(b) == ReplayUtxo(NewBlockChain.dbUtxo, ChainTo(b), 2)

(***************************************************************************)
(* C1.  Every block on the main chain has passed the validation of a main  *)
(* chain extension on the state it is connected to: script check, input    *)
(* availability, coinbase maturity, fee >= 0 and coinbase <= subsidy +     *)
(* fees.  Replaying the main chain from genesis through                    *)
(* tryConnectBlockToMainChain therefore rejects no block.                  *)
(***************************************************************************)
C1_MainChainBlocksValidated ==
    ConnectAll(NewBlockChain, MainChain, 2) = "ok"

(***************************************************************************)
(* C2.  Every block B on the main chain from genesis to the tail is        *)
(* returned by LoadBlockByHash(hash(B)) and by LoadBlockByHeight(B.height).*)
(***************************************************************************)
C2_MainChainRetrievable ==
    \A i \in 1..Len(MainChain) :
        /\ LoadBlockByHash(State, MainChain[i]) = MainChain[i]
        /\ LoadBlockByHeight(State, Height(MainChain[i])) = MainChain[i]

\* a call that reorganizes once, with success, and connects nothing after
ReorgTo(r) ==
    /\ r.err = "ok"
    /\ Len(r.s.reorgLog) = 1
    /\ r.s.reorgLog[1].err = "ok"
    /\ r.s.reorgLog[1].to = Len(r.s.published)

(***************************************************************************)
(* C3.  After a successful reorganization to the side chain tip C the tail *)
(* is C, the main chain is the path from genesis to C (every block of it   *)
(* stored under its hash and its height) and the UTXO set is the one that  *)
(* replaying the blocks from genesis to C gives.                           *)
(***************************************************************************)
C3_ReorgReachesSideTip ==
    \A c \in Calls :
        LET r == Result(c)
            C == r.s.reorgLog[1].block
        IN  ReorgTo(r) =>
                /\ r.s.tail = C
                /\ \A i \in 2..Len(ChainTo(C)) :
                       /\ r.s.dbBlock[ChainTo(C)[i]] = ChainTo(C)[i]
                       /\ r.s.dbHeight[i - 1] = ChainTo(C)[i]
                /\ r.s.dbUtxo = UtxoOfChain(C)

\* the events a reorganization from the tail a to the side chain tip b
\* publishes: the blocks of a's chain above the common ancestor from the
\* tip down, then the blocks of b's chain above it from the bottom up
ReorgEvents(a, b) ==
    LET p == ChainTo(a)
        q == ChainTo(b)
        n == CHOOSE i \in 1..Len(p) :
                 /\ i <= Len(q)
                 /\ \A j \in 1..i : p[j] = q[j]
                 /\ i = Len(p) \/ i = Len(q) \/ p[i + 1] # q[i + 1]
    IN  [k \in 1..(Len(p) - n) |-> UpdateMsg(p[Len(p) + 1 - k], FALSE)]
        \o [k \in 1..(Len(q) - n) |-> UpdateMsg(q[n + k], TRUE)]

IsPrefix(x, y) == Len(x) <= Len(y) /\ x = SubSeq(y, 1, Len(x))

(***************************************************************************)
(* C4.  The events of a reorganization are: one connected=false event per  *)
(* detached block from the old tail down to the block above the fork       *)
(* point, then one connected=true event per attached block from the block  *)
(* above the fork point up to the new tail.  A reorganization that aborts  *)
(* has published a prefix of that sequence.                                *)
(***************************************************************************)
C4_ReorgEventOrder ==
    \A c \in Calls :
        LET r == Result(c)
        IN  \A k \in 1..Len(r.s.reorgLog) :
                LET e == r.s.reorgLog[k]
                    events == SubSeq(r.s.published, e.from, e.to)
                IN  /\ IsPrefix(events, ReorgEvents(e.oldTail, e.block))
                    /\ e.err = "ok" => events = ReorgEvents(e.oldTail, e.block)

\* a call that detaches two blocks and attaches three
C4_Witness ==
    \E c \in Calls :
        LET r == Result(c)
        IN  /\ ReorgTo(r)
            /\ Len(r.s.published) = 5
            /\ ~r.s.published[2].Connected
            /\ r.s.published[3].Connected

(***************************************************************************)
(* C5.  When every block of the linear chain L1..Ln has been submitted     *)
(* once, in whatever order, the tail is Ln, every block of the chain is on *)
(* the main chain (stored under its hash and its height) and the orphan    *)
(* pool is empty.                                                          *)
(***************************************************************************)
C5_LinearChainAnyOrder ==
    submitted = ChainL =>
        /\ tail = <<"L", MaxL>>
        /\ LongestChainHeight = MaxL
        /\ \A b \in ChainL : dbBlock[b] = b /\ dbHeight[Height(b)] = b
        /\ hashToOrphanBlock = {}
        /\ \A h \in AllBlocks : orphanBlockHashToChildren[h] = <<>>

C5_Witness == submitted = ChainL /\ tail = <<"L", MaxL>> /\ cache = ChainL

(***************************************************************************)
(* C6.  After ProcessBlock has accepted a block P no orphan whose parent   *)
(* is P remains in the orphan pool, neither in hashToOrphanBlock nor in    *)
(* orphanBlockHashToChildren, whether the orphans were accepted or not.    *)
(***************************************************************************)
C6_OrphansOfAcceptedBlockRemoved ==
    \A c \in Calls :
        LET P == c.block
            r == Result(c)
        IN  (/\ ~verifyExists(State, P) /\ VerifySign(P) /\ validateBlock(P)
             /\ blockExists(State, PrevBlockHash(P))
             /\ tryAcceptBlock(State, P).err = "ok") =>
                /\ r.s.orphanBlockHashToChildren[P] = <<>>
                /\ \A o \in r.s.hashToOrphanBlock : PrevBlockHash(o) # P

\* what a call leaves alone when it only admits an orphan
OrphanFrame(s) ==
    [ChainOf(s) EXCEPT !.hashToOrphanBlock = {},
                       !.orphanBlockHashToChildren = [h \in AllBlocks |-> <<>>]]

(***************************************************************************)
(* C7.  A block that passes the signature and structure checks and whose   *)
(* parent is neither stored nor cached is inserted into both orphan maps,  *)
(* ProcessBlock returns success, tail, LongestChainHeight, storage and     *)
(* bloom holder are unchanged and no chain:update event is published.      *)
(***************************************************************************)
C7_OrphanAdmitted ==
    \A c \in Calls :
        LET b == c.block
            r == Result(c)
        IN  (/\ ~verifyExists(State, b) /\ VerifySign(b) /\ validateBlock(b)
             /\ ~blockExists(State, PrevBlockHash(b))) =>
                /\ r.err = "ok"
                /\ r.s.hashToOrphanBlock = hashToOrphanBlock \cup {b}
                /\ r.s.orphanBlockHashToChildren =
                       [orphanBlockHashToChildren EXCEPT
                           ![PrevBlockHash(b)] = Append(@, b)]
                /\ OrphanFrame(r.s) = OrphanFrame(State)
                /\ r.s.published = <<>>

(***************************************************************************)
(* C8.  ProcessBlock of a block that is already on the main chain, in the  *)
(* orphan pool or in the block cache returns ErrBlockExists and changes    *)
(* nothing; it publishes, broadcasts and requests nothing.                 *)
(***************************************************************************)
C8_ExistingBlockRejected ==
    \A c \in Calls :
        (\/ c.block \in SeqToSet(MainChain)
         \/ c.block \in hashToOrphanBlock
         \/ c.block \in cache) =>
            /\ Result(c).err = "ErrBlockExists"
            /\ Result(c).s = State

\* an orphan, a main chain block and a side chain block are there and the
\* orphan is submitted again
C8_Witness ==
    /\ tail # G
    /\ cache \ SeqToSet(MainChain) # {}
    /\ \E c \in Calls :
           /\ c.block \in hashToOrphanBlock
           /\ c.block \notin cache
           /\ Result(c).err = "ErrBlockExists"

\* the blocks the chain holds as accepted: cached, stored, indexed by height
Held ==
    cache \cup SeqToSet(MainChain)
          \cup {b \in AllBlocks : dbBlock[b] # NilBlock}
          \cup ({dbHeight[h] : h \in Heights} \ {NilBlock})
          \cup ({heightToBlock[h] : h \in Heights} \ {NilBlock})

(***************************************************************************)
(* C9.  Every block the chain holds (main chain, side chain, accepted out  *)
(* of the orphan pool) has the height of its parent plus one; a block of   *)
(* another height whose parent is known is rejected with                   *)
(* ErrWrongBlockHeight and the call changes nothing.                       *)
(***************************************************************************)
C9_HeightIsParentPlusOne ==
    /\ \A b \in Held \ {G} : Height(b) = Height(PrevBlockHash(b)) + 1
    /\ \A c \in Calls :
           LET b == c.block
           IN  (/\ ~verifyExists(State, b) /\ VerifySign(b) /\ validateBlock(b)
                /\ blockExists(State, PrevBlockHash(b))
                /\ Height(b) # Height(PrevBlockHash(b)) + 1) =>
                   /\ Result(c).err = "ErrWrongBlockHeight"
                   /\ Result(c).s = State

\* a block of a wrong height is submitted after its parent, and another
\* came out of the orphan pool before
C9_Witness ==
    /\ tail # G
    /\ \E c \in Calls :
           /\ blockExists(State, PrevBlockHash(c.block))
           /\ Height(c.block) # Height(PrevBlockHash(c.block)) + 1
           /\ Result(c).err = "ErrWrongBlockHeight"

\* the calls of C10: a new valid block on a known parent that is not the
\* tail, not above the main chain, with no orphan waiting for it
SideChainCall(c) ==
    /\ ~verifyExists(State, c.block) /\ VerifySign(c.block) /\ validateBlock(c.block)
    /\ blockExists(State, PrevBlockHash(c.block))
    /\ PrevBlockHash(c.block) # tail
    /\ Height(c.block) = Height(PrevBlockHash(c.block)) + 1
    /\ Height(c.block) <= LongestChainHeight
    /\ orphanBlockHashToChildren[c.block] = <<>>

(***************************************************************************)
(* C10.  A block on a known parent other than the tail, of a height at     *)
(* most LongestChainHeight and with no orphan waiting for it, is accepted  *)
(* without reorganization: tail, LongestChainHeight, UTXO set, tx index,   *)
(* bloom holder and storage are unchanged, no chain:update event is        *)
(* published, and the block is kept as a known block.                      *)
(***************************************************************************)
C10_SideChainNotLonger ==
    \A c \in Calls :
        LET r == Result(c)
        IN  SideChainCall(c) =>
                /\ r.err = "ok"
                /\ ChainOf(r.s) = [State EXCEPT !.cache = @ \cup {c.block}]
                /\ r.s.published = <<>>
                /\ r.s.reorgLog = <<>>
                /\ verifyExists(r.s, c.block)

\* a side chain block of the height of the main chain is accepted
C10_Witness ==
    \E c \in Calls :
        /\ SideChainCall(c)
        /\ Height(c.block) = LongestChainHeight
        /\ Height(c.block) > 1
        /\ Result(c).err = "ok"

(***************************************************************************)
(* Notions for the node of SpecNode.                                       *)
(***************************************************************************)
\* the arguments of a SetEternal call
EternalCalls == [block : {G} \cup NodeBlocks, storeErr : BOOLEAN]

\* the arguments of a ProcessBlock call of the node in the current state
NodeCalls ==
    {c \in [block : NodeBlocks, broadcast : BOOLEAN, from : Peers,
            lightSyncErr : BOOLEAN] :
        c.lightSyncErr \in LightSyncResults(State, c.block, c.from)}

(***************************************************************************)
(* C11.  SetEternal(block) replaces the eternal pointer, in memory and in  *)
(* storage, exactly when block.height is strictly greater than the height  *)
(* of the eternal block and the storage write succeeds; in that case the   *)
(* height of the eternal block has strictly increased.  Otherwise it       *)
(* returns an error and leaves the eternal pointer alone: the error is     *)
(* ErrFailedToSetEternal when the height is not greater, and a failed      *)
(* storage write leaves the pointer in memory unchanged.                   *)
(***************************************************************************)
C11_SetEternalStrictlyHigher ==
    \A c \in EternalCalls :
        LET r == SetEternal(State, c.block, c.storeErr)
        IN  /\ r.err = "ok" <=> (Height(c.block) > Height(eternal) /\ ~c.storeErr)
            /\ r.err = "ok" =>
                 /\ r.s.eternal = c.block
                 /\ r.s.dbEternal = c.block
                 /\ Height(r.s.eternal) > Height(eternal)
            /\ r.err # "ok" => r.s.eternal = eternal /\ r.s.dbEternal = dbEternal
            /\ Height(c.block) <= Height(eternal) => r.err = "ErrFailedToSetEternal"

\* SetEternal has moved the eternal block twice: it is above height 1, and
\* a block of its own height is offered again
C11_Witness ==
    /\ Height(eternal) > 1
    /\ dbEternal = eternal
    /\ \E c \in EternalCalls : c.block # eternal /\ Height(c.block) = Height(eternal)

(***************************************************************************)
(* C12.  In every reachable state, after any sequence of ProcessBlock and  *)
(* SetEternal calls, eternal.height is at most tail.height.                *)
(***************************************************************************)
C12_EternalAtMostTail == Height(eternal) <= Height(tail)

(***************************************************************************)
(* C13.  No reorganization detaches a block whose height is at or below    *)
(* the height of the eternal block: while the eternal block is on the main *)
(* chain, no ProcessBlock call publishes the disconnection of a block at   *)
(* or below its height.                                                    *)
(***************************************************************************)
C13_NoDetachAtOrBelowEternal ==
    eternal \in SeqToSet(MainChain) =>
        \A c \in NodeCalls :
            LET published == ProcessBlock(State, c.block, c.broadcast, c.from,
                                          c.lightSyncErr).s.published
            IN  \A i \in 1..Len(published) :
                    ~published[i].Connected =>
                        Height(published[i].Block) > Height(eternal)

(***************************************************************************)
(* C14.  LocateForkPointAndFetchHeaders, given candidate hashes of which   *)
(* the first one known to the node is a main chain block at height h,      *)
(* returns without error the hashes of the main chain blocks at heights    *)
(* h+1, h+2, ... in ascending order, exactly                               *)
(* min(tail.height - h, MaxBlocksPerSync) of them, whatever                *)
(* tail.height - h is; it returns an empty result when no candidate is     *)
(* known.                                                                  *)
(***************************************************************************)
C14_HeadersAboveForkPoint ==
    \A hashes \in Candidates :
        LET known == {i \in 1..Len(hashes) : LoadBlockByHash(State, hashes[i]) # NilBlock}
            r == LocateForkPointAndFetchHeaders(State, hashes)
        IN  IF known = {} THEN r.err = "ok" /\ r.result = <<>>
            ELSE LET first == hashes[CHOOSE i \in known : \A j \in known : i <= j]
                     h == Height(first)
                     d == Height(tail) - h
                     n == IF d < MaxBlocksPerSync THEN d ELSE MaxBlocksPerSync
                 IN  first \in SeqToSet(MainChain) =>
                         /\ r.err = "ok"
                         /\ r.result = [i \in 1..n |-> MainChain[h + 1 + i]]

\* the fee of a transaction and the fees of a block in true arithmetic
TrueFee(tx) ==
    IF IsCoinBase(tx) THEN 0
    ELSE SumSeq([i \in 1..Len(Vin(tx)) |-> OutValue(Vin(tx)[i])]) - SumSeq(Vout(tx))
TrueFees(b) == SumSeq([i \in 1..Len(Txs(b)) |-> TrueFee(Txs(b)[i])])

(***************************************************************************)
(* C15.  A main chain extension block is accepted only if the true sum of  *)
(* its coinbase output values is at most subsidy(height) plus the true sum *)
(* of the transaction fees: no overflow of the unsigned arithmetic lets a  *)
(* block whose coinbase pays more than allowed be accepted.                *)
(***************************************************************************)
C15_CoinbaseWithinSubsidyAndFees ==
    \A c \in NodeCalls :
        LET r == ProcessBlock(State, c.block, c.broadcast, c.from, c.lightSyncErr)
        IN  (PrevBlockHash(c.block) = tail /\ r.err = "ok"
                /\ c.block \in SeqToSet(ChainTo(r.s.tail))) =>
                SumSeq(Vout(Txs(c.block)[1]))
                    <= CalcBlockSubsidy(Height(c.block)) + TrueFees(c.block)

\* the arguments of an inbound block message in the current state
MsgCalls ==
    {c \in [block : NodeBlocks, from : Peers \ {""}, unmarshalErr : BOOLEAN,
            now : Nows, lightSyncErr : BOOLEAN] :
        c.lightSyncErr \in LightSyncResults(State, c.block, c.from)}

(***************************************************************************)
(* C20.  An inbound block message that is rejected because its time stamp  *)
(* is too far in the future, or because a different block with the same    *)
(* time stamp is in the repeated-mint cache, makes processBlockMsg publish *)
(* a bad-block event for the sending peer on p2p:connevent, and no         *)
(* new-block event.                                                        *)
(***************************************************************************)
C20_TemporalRejectionScoresSender ==
    \A c \in MsgCalls :
        LET r == processBlockMsg(State, c.block, c.from, c.unmarshalErr, c.now,
                                 c.lightSyncErr)
        IN  (~c.unmarshalErr
                /\ (~verifyRepeatedMint(State, c.block)
                        \/ VerifyBlockTimeOut(c.block, c.now) # "ok")) =>
                /\ r.err # "ok"
                /\ r.connEvents = <<<<c.from, BadBlockEvent>>>>

(***************************************************************************)
(* Notions for the script VM.                                              *)
(***************************************************************************)
\* the script Validate runs first
CatScript(scriptSig, scriptPubKey) ==
    scriptSig \o <<OpCode.OPCODESEPARATOR>> \o scriptPubKey

\* the run of a script from an empty stack
RunOf(script, scriptSig) ==
    runFrom(script, NewTx(<<scriptSig>>), 0, 0, [stack |-> <<>>, scriptPubKeyStart |-> 0])

\* a Validate call has returned
Validated == validation.err \notin {"idle", "none"}

(***************************************************************************)
(* C16.  For a pay-to-script-hash script_pubkey, Validate succeeds only if *)
(* both phases succeed on the same redeem script: the serialized redeem    *)
(* script that is taken from script_sig and executed after                 *)
(* push(signature) || OP_CODESEPARATOR is the item whose HASH160 equals    *)
(* the 20-byte hash in script_pubkey, and script_sig consists of exactly   *)
(* the two pushes of the signature and of that redeem script.              *)
(***************************************************************************)
C16_P2SHRunsHashedRedeemScript ==
    (Validated /\ validation.err = "ok" /\ IsPayToScriptHash(validation.scriptPubKey)) =>
        LET p1 == parseNextOp(validation.scriptSig, 0)
            p2 == parseNextOp(validation.scriptSig, p1.pc)
        IN  /\ p1.err = "ok" /\ p1.opCode <= OpCode.OPPUSHDATA4
            /\ p2.err = "ok" /\ p2.opCode <= OpCode.OPPUSHDATA4
            /\ p2.pc = Len(validation.scriptSig)
            /\ Hash160(p2.operand) = SubSeq(validation.scriptPubKey, 3, 22)
            /\ evaluate(CatScript(AddOperand(NewScript, p1.operand), p2.operand),
                        NewTx(<<validation.scriptSig>>), 0) = "ok"

(***************************************************************************)
(* C17.  For a script_pubkey that is not pay-to-script-hash, Validate      *)
(* returns success if and only if executing                                *)
(* script_sig || OP_CODESEPARATOR || script_pubkey from an empty stack     *)
(* runs every operation without error and ends with a non-empty stack      *)
(* whose top item is truthy.                                               *)
(***************************************************************************)
C17_ValidateIsEvaluationOfBoth ==
    (Validated /\ ~IsPayToScriptHash(validation.scriptPubKey)) =>
        LET r == RunOf(CatScript(validation.scriptSig, validation.scriptPubKey),
                       validation.scriptSig)
        IN  validation.err = "ok" <=>
                /\ r.err = "ok"
                /\ r.stack # <<>>
                /\ IsTrue(r.stack[Len(r.stack)])

\* Validate has succeeded on the pay-to-pubkey-hash script with the
\* signature and the key pushed by the unlocking script
C17_Witness ==
    /\ Validated
    /\ validation.err = "ok"
    /\ validation.scriptPubKey = PayToPubKeyHashScript(Hash160(PubKeyA))
    /\ validation.scriptSig = SignatureScript(SigA, PubKeyA)

(***************************************************************************)
(* C18.  Data-push encoding round-trips for every operand length: parsing  *)
(* the script produced by AddOperand(x) at pc 0 returns the operand x and  *)
(* a new pc equal to the script length, also for an OP_PUSHDATA4 push      *)
(* (operands longer than 65535 bytes).                                     *)
(***************************************************************************)
C18_PushRoundTrip ==
    push.err \notin {"idle", "none"} =>
        /\ push.err = "ok"
        /\ push.size = push.len
        /\ push.pc = Len(AddOperand(NewScript, OperandOf(push.len, push.seed)))
        /\ ParsedPush(push.len, push.seed).operand = OperandOf(push.len, push.seed)

(***************************************************************************)
(* C19.  Two concurrent signature-hash computations on the same            *)
(* transaction do not interfere: when both have finished, each has the     *)
(* digest and the error it gets when run alone, and every input's          *)
(* script_sig equals its original value.                                   *)
(***************************************************************************)
C19_ConcurrentSigHashesIndependent ==
    (\A t \in Threads : sigCalls[t].pc = "done") =>
        /\ txVin = OrigScriptSigs
        /\ \A t \in Threads :
              LET alone == CalcTxHashForSig(sigCalls[t].scriptPubKey,
                                            NewTx(OrigScriptSigs), sigCalls[t].txInIdx)
              IN  sigCalls[t].err = alone.err /\ sigCalls[t].sigHash = alone.sigHash

\* ProcessBlock called with c passes the checks before tryAcceptBlock and
\* tryAcceptBlock accepts the submitted block
AcceptsSubmitted(c) ==
    /\ ~verifyExists(State, c.block)
    /\ VerifySign(c.block)
    /\ validateBlock(c.block)
    /\ blockExists(State, PrevBlockHash(c.block))
    /\ tryAcceptBlock(State, c.block).err = "ok"

(***************************************************************************)
(* C21.  Whenever ProcessBlock accepts the submitted block (connects it to *)
(* the main chain or keeps it on a side chain) with broadcast set, it      *)
(* returns success and forwards the block on the network, whether the      *)
(* orphans that were waiting for the block are then accepted or rejected.  *)
(***************************************************************************)
C21_AcceptedBlockIsBroadcast ==
    \A c \in Calls :
        (c.broadcast /\ AcceptsSubmitted(c)) =>
            /\ Result(c).err = "ok"
            /\ Result(c).s.sent = <<c.block>>

(***************************************************************************)
(* C22.  A reader that calls GetBlockHeight, TailBlock and LoadBlockByHash *)
(* while a ProcessBlock call runs sees a chain that is not half updated:   *)
(* the height it reads is the height of the tail it reads, and the tail it *)
(* reads is in storage.                                                    *)
(***************************************************************************)
C22_ReaderSeesWholeChain ==
    observed # NoRead =>
        /\ observed.height = Height(observed.tail)
        /\ observed.block = observed.tail

(***************************************************************************)
(* C23.  A chain instance publishes its chain:update and p2p:connevent     *)
(* events only on the event bus it was constructed with: the subscribers   *)
(* of a bus get no event of a chain that was constructed with another bus. *)
(***************************************************************************)
C23_EventsOnlyOnOwnBus ==
    \A bus \in Buses : \A e \in delivered[bus] : chainBus[e.chain].given = bus

\* the keys of persistent storage the core writes: block, height-to-hash,
\* UTXO entries and tx-index entries
Storage(s) == [dbBlock |-> s.dbBlock, dbHeight |-> s.dbHeight,
               dbUtxo |-> s.dbUtxo, dbTxIndex |-> s.dbTxIndex]

\* the blocks applyBlock applies on the chain as it is
Applicable == {b \in Blocks : PrevBlockHash(b) = tail /\ applyBlock(State, b, <<>>).err = "ok"}

(***************************************************************************)
(* C24.  applyBlock of a block and then revertBlock of the same block      *)
(* leave persistent storage as it was before applyBlock, in every key      *)
(* namespace: block, height-to-hash, UTXO entries and tx-index entries.    *)
(***************************************************************************)
C24_ApplyThenRevertRestoresStorage ==
    \A b \in Applicable :
        Storage(revertBlock(applyBlock(State, b, <<>>).s, b).s) = Storage(State)

\* the bloom holder with one entry for each block of chain above genesis
HolderOf(chain) == [i \in 1..(Len(chain) - 1) |-> [height |-> i, hash |-> chain[i + 1]]]

(***************************************************************************)
(* C25.  After any sequence of block connections and reorganizations the   *)
(* bloom holder has exactly one entry for each main-chain block above      *)
(* genesis, in ascending height order without gaps, with the hash of the   *)
(* main-chain block of that height; and add_filter never fails with a      *)
(* height-order error during a reorganization.                             *)
(***************************************************************************)
C25_HolderMirrorsMainChain ==
    /\ filterHolder = HolderOf(MainChain)
    /\ \A c \in Calls :
           \A k \in 1..Len(Result(c).s.reorgLog) :
               Result(c).s.reorgLog[k].err # "ErrFilterHeight"

\* the transactions of the main-chain blocks above genesis
OnMainChain == UNION {BlockTxSet(MainChain[i]) : i \in 2..Len(MainChain)}

(***************************************************************************)
(* C26.  After any sequence of accepted blocks and reorganizations,        *)
(* LoadTxByHash(h) returns a transaction exactly when a transaction with   *)
(* hash h is in a block that is on the main chain now, and it returns that *)
(* transaction: not a transaction that was only in detached blocks, and    *)
(* also a transaction of an attached block below the tip.                  *)
(***************************************************************************)
C26_TxIndexMirrorsMainChain ==
    \A h \in UNION {BlockTxSet(b) : b \in Blocks} :
        /\ (LoadTxByHash(State, h).err = "ok") <=> (h \in OnMainChain)
        /\ LoadTxByHash(State, h).err = "ok" => LoadTxByHash(State, h).tx = h

(***************************************************************************)
(* C29.  Reset sets both components of the score, achievement and          *)
(* punishment, to zero: the score read right after Reset is the base score *)
(* (100), whatever awards and punishments came before.                     *)
(***************************************************************************)
C29_ResetZeroesBothComponents ==
    \A g \in Goroutines :
        At(g, {"Reset"}, "unlock") =>
            /\ ps.achievement = 0
            /\ ps.punishment = 0
            /\ int(ps, unixNow).r = baseScore

\* goroutine g is in a call of String
InString(g) == goroutines[g].stack # <<>> /\ goroutines[g].stack[1].op = "String"

(***************************************************************************)
(* C30.  A call of String terminates: it returns the score as a string and *)
(* releases the mutex of the score, so that later Award, Punish and Int    *)
(* calls on the same score proceed.                                        *)
(***************************************************************************)
C30_StringTerminates ==
    \A g \in Goroutines :
        InString(g) ~> (goroutines[g].stack = <<>> /\ mtx # g)

\* the components of s at time tu, before an event of that time is added:
\* past their lifetime they are zero, and they decay when time has passed
ComponentsAt(s, tu) ==
    LET s1 == IF s.lastUnix # 0 THEN verifyLifeTime(s, tu - s.lastUnix) ELSE s
    IN  IF tu - s.lastUnix > 0 THEN decayBoth(s1, tu - s.lastUnix) ELSE s1

Smaller(a, b) == IF a < b THEN a ELSE b

(***************************************************************************)
(* C31.  Every Award(a) adds a to the achievement component (limited by    *)
(* the upper limit 1000) and every Punish(p) adds p to the punishment      *)
(* component, and the score returned shows it, whatever time has passed    *)
(* since the score event before, also for a second event within the same   *)
(* Unix second.                                                            *)
(***************************************************************************)
C31_EveryEventCounts ==
    \A g \in Goroutines :
        /\ At(g, {"Award"}, "body") =>
              LET res == award(ps, Top(g).arg, unixNow)
              IN  /\ res.s.achievement =
                        Smaller(ComponentsAt(ps, unixNow).achievement + Top(g).arg * FixOne,
                                upperLimit * FixOne)
                  /\ res.r = scoreOf(res.s)
        /\ At(g, {"Punish"}, "body") =>
              LET res == punish(ps, Top(g).arg, unixNow)
              IN  /\ res.s.punishment =
                        ComponentsAt(ps, unixNow).punishment + Top(g).arg * FixOne
                  /\ res.r = scoreOf(res.s)

(***************************************************************************)
(* C40.  The score that Int, Award and Punish return lies between 0 and    *)
(* baseScore + upperLimit (1100): when the punishment component is above   *)
(* baseScore plus the achievement component the unsigned subtraction does  *)
(* not wrap around to a very large score.                                  *)
(***************************************************************************)
C40_ScoreWithinRange ==
    \A g \in Goroutines :
        /\ 0 <= goroutines[g].ret
        /\ goroutines[g].ret <= baseScore + upperLimit

\* ProcessBlock called with c admits the block as an orphan
AdmitsOrphan(c) ==
    /\ ~verifyExists(State, c.block)
    /\ VerifySign(c.block)
    /\ validateBlock(c.block)
    /\ ~blockExists(State, PrevBlockHash(c.block))

(***************************************************************************)
(* C32.  When an orphan block is admitted exactly one sync request is      *)
(* made: a light sync from the sending peer when the sender is known and   *)
(* block.height - tail.height is below 32, and a full sync in every other  *)
(* case (sender unknown, gap of 32 or more, orphan not above the tail).    *)
(***************************************************************************)
C32_OrphanStartsOneSync ==
    \A c \in Calls :
        AdmitsOrphan(c) =>
            Result(c).s.syncCalls =
                IF c.from # "" /\ Height(c.block) > Height(tail)
                   /\ Height(c.block) - Height(tail) < Threshold
                THEN <<<<"ActiveLightSync", c.from>>>>
                ELSE <<<<"StartSync", "">>>>

\* the blocks for which tryAcceptBlock calls reorganize in this state
Reorganizing ==
    {b \in Blocks : /\ ReachesConnect(b)
                    /\ PrevBlockHash(b) # tail
                    /\ Height(b) > LongestChainHeight
                    /\ ~findFork(Cached(b), b).panic}

(***************************************************************************)
(* C33.  In every reorganization there are strictly more blocks to attach  *)
(* than to detach: for a triggering block of height H the attach count     *)
(* minus the detach count is H minus the height of the main-chain tail,    *)
(* and the fork point is the first pair of blocks of equal height and hash *)
(* found walking both chains backward: the detached blocks are the main    *)
(* chain from the tail down to the fork point, the attached blocks the     *)
(* side chain from the block down to it, and the two share no block.       *)
(***************************************************************************)
C33_AttachOutnumbersDetach ==
    \A b \in Reorganizing :
        LET f == findFork(Cached(b), b)
            n == Len(f.attach)
            d == Len(f.detach)
        IN  /\ n > d
            /\ n - d = Height(b) - Height(tail)
            /\ Height(f.fork) = Height(tail) - d
            /\ \A k \in 1..d : f.detach[k] = ChainTo(tail)[Height(tail) + 2 - k]
            /\ \A k \in 1..n : f.attach[k] = ChainTo(b)[Height(b) + 2 - k]
            /\ f.fork = ChainTo(tail)[Height(f.fork) + 1]
            /\ f.fork = ChainTo(b)[Height(f.fork) + 1]
            /\ \A k \in 1..d : f.detach[k] # f.attach[n - d + k]

\* a reorganization that detaches two blocks
C33_Witness ==
    \E b \in Reorganizing : Len(findFork(Cached(b), b).detach) = 2

\* ProcessBlock called with c returns the error of a reorganization that
\* failed while it reverted or attached blocks
ReorgFails(c) ==
    /\ Result(c).err # "ok"
    /\ \E k \in 1..Len(Result(c).s.reorgLog) :
           Result(c).s.reorgLog[k].err = Result(c).err

(***************************************************************************)
(* C34.  If ProcessBlock returns an internal error (a storage failure, a   *)
(* failure while reverting or attaching blocks in a reorganization), no    *)
(* chain:update event has been published during that call.                 *)
(***************************************************************************)
C34_NoEventOnInternalError ==
    \A c \in Calls : ReorgFails(c) => Result(c).s.published = <<>>

\* the transaction as CalcTxHashForSig of call hashes it
SigDraft(call) ==
    [i \in 1..Len(OrigScriptSigs) |->
        IF i - 1 # call.txInIdx THEN <<>> ELSE call.scriptPubKey]

(***************************************************************************)
(* C35.  CalcTxHashForSig run alone leaves the transaction unchanged on    *)
(* every return path: when it has returned, with a digest or with an       *)
(* error, the script sig of every input is the one of before the call.     *)
(* While the digest is computed input txInIdx carries scriptPubKey and     *)
(* every other input an empty script sig, and the digest is the one of     *)
(* that transaction, computed fresh and not taken from a cached hash.      *)
(***************************************************************************)
C35_SigHashAloneRestoresAndIsFresh ==
    LET call == sigCalls[1]
    IN  /\ call.pc = "done" => txVin = OrigScriptSigs
        /\ call.pc = "hash" => txVin = SigDraft(call)
        /\ (call.pc = "done" /\ call.err = "ok") =>
               call.sigHash = CalcTxHash(NewTx(SigDraft(call)))

\* the operations that read the top item, and those that read the two top items
OneItemOps == {OpCode.OPDUP, OpCode.OPHASH160}
TwoItemOps ==
    {OpCode.OPEQUAL, OpCode.OPEQUALVERIFY, OpCode.OPADD, OpCode.OPSUB,
     OpCode.OPCHECKSIG, OpCode.OPCHECKSIGVERIFY}
Executed == vm.r.err \notin {"idle", "none"}
\* the stack without its n top items
Below(stack, n) == SubSeq(stack, 1, Len(stack) - n)

(***************************************************************************)
(* C36.  Every executed opcode checks its stack depth before touching the  *)
(* stack: OP_DUP and OP_HASH160 on an empty stack, and OP_EQUAL,           *)
(* OP_EQUALVERIFY, OP_ADD, OP_SUB, OP_CHECKSIG, OP_CHECKSIGVERIFY on a     *)
(* stack of fewer than two items, return the invalid-stack-operation error *)
(* with the stack unchanged, and return it in no other case.  On success   *)
(* OP_EQUAL replaces the two top items by one boolean, and OP_EQUALVERIFY  *)
(* removes the two top items and leaves no result; it fails with the       *)
(* equal-verify error when they differ.                                    *)
(***************************************************************************)
C36_DepthCheckedBeforeStackIsTouched ==
    Executed =>
        LET short == \/ vm.opCode \in OneItemOps /\ Len(vm.stack) < 1
                     \/ vm.opCode \in TwoItemOps /\ Len(vm.stack) < 2
            equal == vm.stack[Len(vm.stack) - 1] = vm.stack[Len(vm.stack)]
        IN  /\ short <=> vm.r.err = "ErrInvalidStackOperation"
            /\ short => vm.r.stack = vm.stack
            /\ (~short /\ vm.opCode = OpCode.OPEQUAL) =>
                   /\ vm.r.err = "ok"
                   /\ vm.r.stack = Append(Below(vm.stack, 2),
                                          IF equal THEN operandTrue ELSE operandFalse)
            /\ (~short /\ vm.opCode = OpCode.OPEQUALVERIFY) =>
                   IF equal
                   THEN vm.r.err = "ok" /\ vm.r.stack = Below(vm.stack, 2)
                   ELSE vm.r.err = "ErrScriptEqualVerify"

\* OP_EQUALVERIFY has consumed two equal items, and nothing else
C36_Witness ==
    /\ Executed
    /\ vm.opCode = OpCode.OPEQUALVERIFY
    /\ Len(vm.stack) = 2
    /\ vm.stack[1] = vm.stack[2]
    /\ vm.r.err = "ok"
    /\ vm.r.stack = <<>>

(***************************************************************************)
(* C37.  In every state between ProcessBlock calls LongestChainHeight      *)
(* equals the height of the tail, and every ProcessBlock call that changes *)
(* the tail strictly increases its height: by exactly one when the new     *)
(* tail extends the old one, by at least one on a reorganization.  The     *)
(* height of the tail never decreases.                                     *)
(***************************************************************************)
C37_TailHeightOnlyGrows ==
    /\ LongestChainHeight = Height(tail)
    /\ \A c \in Calls :
           LET r == Result(c).s
           IN  /\ r.LongestChainHeight = Height(r.tail)
               /\ Height(r.tail) >= Height(tail)
               /\ r.tail # tail => Height(r.tail) > Height(tail)
               /\ (r.tail # tail /\ PrevBlockHash(r.tail) = tail) =>
                      Height(r.tail) = Height(tail) + 1

\* a reorganization is about to move the tail to a block that does not
\* extend it, above a main chain of two blocks
C37_Witness ==
    /\ Height(tail) = 2
    /\ \E c \in Calls :
           /\ c.block \in Reorganizing
           /\ Result(c).err = "ok"
           /\ Result(c).s.tail # tail
           /\ PrevBlockHash(Result(c).s.tail) # tail

\* the reorganizations of a call that returned an error
Aborted(r) == {k \in 1..Len(r.s.reorgLog) : r.s.reorgLog[k].err # "ok"}

\* b is not known in s, passes the checks of ProcessBlock and extends the
\* side chain that ends in side, above the main chain
ExtendsSideAbove(s, side, b) ==
    /\ ~verifyExists(s, b)
    /\ VerifySign(b)
    /\ validateBlock(b)
    /\ blockExists(s, PrevBlockHash(b))
    /\ getParentBlock(s, b) # NilBlock
    /\ VerifyMinerEpoch(b)
    /\ Height(b) = Height(getParentBlock(s, b)) + 1
    /\ PrevBlockHash(b) # s.tail
    /\ PrevBlockHash(b) \in SeqToSet(ChainTo(side)) \ SeqToSet(ChainTo(s.tail))
    /\ Height(b) > s.LongestChainHeight

(***************************************************************************)
(* C38.  If a reorganization aborts with an error after some blocks were   *)
(* reverted or attached, the tail and LongestChainHeight still designate   *)
(* the tip of before the reorganization and ProcessBlock returns the       *)
(* error.  The next arriving block that extends the side chain above       *)
(* LongestChainHeight starts a new reorganization attempt.                 *)
(***************************************************************************)
C38_AbortedReorgKeepsTail ==
    \A c \in Calls :
        LET r == Result(c)
        IN  \A k \in Aborted(r) :
                LET log == r.s.reorgLog[k]
                IN  /\ r.err = log.err
                    /\ r.s.tail = log.oldTail
                    /\ r.s.LongestChainHeight = Height(log.oldTail)
                    /\ \A b \in Blocks :
                           ExtendsSideAbove(r.s, log.block, b) =>
                               ProcessBlock(ChainOf(r.s), b, FALSE, "", FALSE).s.reorgLog # <<>>

\* a reorganization aborts after it has published events, and a block that
\* extends the side chain is there to arrive next
C38_Witness ==
    \E c \in Calls :
        /\ Aborted(Result(c)) # {}
        /\ Result(c).s.published # <<>>
        /\ \E b \in Blocks :
               ExtendsSideAbove(Result(c).s, Result(c).s.reorgLog[1].block, b)

\* the number of times b appears in the list of children of parent
TimesListed(parent, b) ==
    Cardinality({i \in 1..Len(orphanBlockHashToChildren[parent]) :
                    orphanBlockHashToChildren[parent][i] = b})

(***************************************************************************)
(* C39.  In every reachable state the two orphan maps describe the same    *)
(* set of blocks: a block is in hash_to_orphan if and only if it appears   *)
(* in a list of parent_hash_to_children, it appears in exactly one list    *)
(* and exactly once, and that list is the one keyed by the hash of its     *)
(* parent.  No block that is on the main chain or in the cache is in the   *)
(* orphan pool.                                                            *)
(***************************************************************************)
C39_OrphanMapsAgree ==
    /\ \A b \in AllBlocks :
           /\ b \in hashToOrphanBlock <=>
                  \E parent \in AllBlocks : TimesListed(parent, b) > 0
           /\ \A parent \in AllBlocks :
                  TimesListed(parent, b) > 0 =>
                      TimesListed(parent, b) = 1 /\ parent = PrevBlockHash(b)
    /\ hashToOrphanBlock \cap (cache \cup SeqToSet(MainChain)) = {}

=============================================================================
